---------------------------- MODULE Spec2Model ----------------------------
(***************************************************************************)
(* State-machine model of the operational safeguards of modul8r:           *)
(*   - EnhancedLogCapture   (src/src/modul8r/logging_config.py)            *)
(*   - ThrottledBroadcaster (src/src/modul8r/websocket_handlers.py)        *)
(*   - SimpleEventLoopMonitor (src/src/modul8r/performance_monitor.py)     *)
(*   - LogStreamManager     (src/src/modul8r/websocket_handlers.py)        *)
(* Each component has its own specification (SpecStore, SpecBroadcaster    *)
(* with its fair variant FairBroadcaster, SpecDegrade, SpecMonitor,        *)
(* SpecStatus, SpecHealth, SpecStream, SpecRouting, SpecQuery,             *)
(* SpecCapture, SpecConfigured, SpecPending, SpecBreaker, SpecTasks,       *)
(* SpecMonitorTask with its fair variant FairMonitorTask, SpecFlight,      *)
(* SpecAnnounce, SpecDedup, SpecRetention, SpecPass, SpecImmediate) over   *)
(* the shared variables; the variables of the components a specification   *)
(* does not exercise stay at their constructed values.                     *)
(***************************************************************************)
EXTENDS Integers, Sequences, FiniteSets, TLC

(***************************************************************************)
(* Generic helpers.                                                        *)
(***************************************************************************)
Min(a, b) == IF a <= b THEN a ELSE b

Max(a, b) == IF a >= b THEN a ELSE b

\* the last n elements of s (all of s when it is shorter): Python's s[-n:], n > 0
LastN(s, n) == IF Len(s) <= n THEN s ELSE SubSeq(s, Len(s) - n + 1, Len(s))

Range(s) == {s[i] : i \in 1..Len(s)}

\* Python's list.remove(x): drops the first occurrence of x
RECURSIVE RemoveFirst(_, _)
RemoveFirst(s, x) ==
    IF s = <<>> THEN <<>>
    ELSE IF Head(s) = x THEN Tail(s)
    ELSE <<Head(s)>> \o RemoveFirst(Tail(s), x)

\* the value of a dict key that the dict does not hold
Absent == "<absent>"

(***************************************************************************)
(*                     EnhancedLogCapture (the store)                      *)
(***************************************************************************)

\* ---- bounds of the store model ----
\* max_entries given to the constructor
MaxEntries == 2
\* max_age_seconds given to the constructor (seconds)
MaxAgeSeconds == 1
\* the store clock runs over 0..MaxNow (seconds)
MaxNow == 2
\* notification tasks that may be waiting on the event loop
MaxNotifyTasks == 1
\* subscriber list length
MaxSubscribers == 1

\* ---- program constants ----
\* the dedup cache is pruned once it holds more than this many keys
RecentHashesLimit == 100
\* ... and then cut down to this many
RecentHashesKeep == 50

VARIABLES
    entries,              \* self.entries: deque(maxlen=max_entries) of clean records
    subscribers,          \* self._subscribers: list of sessions
    recent_hashes,        \* self._recent_hashes: set of dedup keys ({} while unset)
    notify_tasks,         \* _notify_subscribers_async tasks created and not yet run
    cleanup_task,         \* self.cleanup_task: "none" | "running"
    cleanup_tasks,        \* the cleanup tasks created so far; cleanup_task is the latest
    store_now,            \* the wall clock the store reads (seconds)
    accepted,             \* history: every record appended to entries, in order
    cleaned,              \* history: number of records removed by cleanup passes
    seen_tuples,          \* history: the tuples of the records accepted so far
    window_tuples,        \* history: ... of those accepted since the last prune
    last_op               \* history: the latest operation (and how add_entry ended)

\* (memory_usage_samples and last_cleanup_time are statistics that only
\* get_memory_stats reads; no operation modelled here depends on them)
storeVars == <<entries, subscribers, recent_hashes, notify_tasks, cleanup_task, cleanup_tasks,
               store_now, accepted, cleaned, seen_tuples, window_tuples,
               last_op>>

Sessions == {"ws1", "ws2"}

(***************************************************************************)
(* Variables of the ThrottledBroadcaster and the LogStreamManager.  Time   *)
(* is read by the broadcaster only as current_time - last_flush_time, so   *)
(* the model keeps that difference (since_flush) and, for a sleeping timer *)
(* task, the time left until it wakes.  The unit is one tick, 1/64 s.      *)
(***************************************************************************)
VARIABLES
    batch_interval,       \* broadcaster.batch_interval (ticks)
    max_batch_size,       \* broadcaster.max_batch_size
    pending_messages,     \* broadcaster.pending_messages
    flush_task,           \* broadcaster.flush_task and the time left of its sleep
    since_flush,          \* time.time() - broadcaster.last_flush_time (ticks, saturated)
    message_count,        \* broadcaster.message_count
    rate_limit_active,    \* broadcaster.rate_limit_active
    has_broadcaster,      \* manager.throttled_broadcaster is not None
    enable_message_throttling,  \* settings.enable_message_throttling
    active_connections,   \* manager.active_connections
    next_msg,             \* history: the id the next accepted message gets
    sent_now,             \* history: per session, what the latest operation sent it
    flush_count,          \* history: batches dispatched so far
    burst,                \* history: queue_message calls of an undisturbed first burst
    bc_op,                \* history: the latest broadcaster / manager operation
    since_trip,           \* history: time since the breaker tripped (ticks, saturated), -1 while it is not tripped
    in_flight,            \* the flush_batch calls suspended in their send: envelope and session snapshot
    orphan_timers,        \* the time left of the sleeping timer tasks flush_task no longer refers to
    batched               \* history: per accepted message, the envelopes dispatched with it

flightVars == <<in_flight, orphan_timers, batched>>

\* history: the performance_mode each connected session was last told
\* ("none" before any announcement and while it is not connected)
VARIABLE announced

\* one run of _direct_broadcast (of the manager or of the broadcaster), split
\* at its awaits: the snapshot it iterates, how many sends it has attempted,
\* disconnected_clients, what each session has received from it, and whether
\* an exception left it
VARIABLE send_pass

bcVars == <<batch_interval, max_batch_size, pending_messages, flush_task,
            since_flush, message_count, rate_limit_active, has_broadcaster,
            enable_message_throttling, active_connections, next_msg, sent_now,
            flush_count, burst, bc_op, since_trip, flightVars>>

(***************************************************************************)
(* Variables of the SimpleEventLoopMonitor.                                *)
(***************************************************************************)
VARIABLES
    degradation_active,   \* monitor.degradation_active
    severe_lag_count,     \* monitor.severe_lag_count
    lag_measurements,     \* monitor.lag_measurements (the lag_ms of each)
    degradation_callbacks,\* monitor.degradation_callbacks
    dispatched,           \* history: the callback invocations of the latest operation
    mon_op,               \* history: the latest monitor operation and its lag
    severe_run,           \* history: consecutive severe checks begun at count 0
    run_emergencies,      \* history: emergency events dispatched in that run
    last_sr,              \* history: the latest of "standard" / "recovery" dispatched
    max_measurements,     \* monitor.max_measurements
    raised                \* history: the callbacks that raised in the latest operation

monVars == <<degradation_active, severe_lag_count, lag_measurements,
             degradation_callbacks, dispatched, mon_op, severe_run,
             run_emergencies, last_sr, max_measurements, raised>>

(***************************************************************************)
(* The outcome of the latest read-only call (a query or a statistics       *)
(* call): its name, whether it raised, and the value it returned.          *)
(***************************************************************************)
VARIABLE returned

(***************************************************************************)
(* The periodic tasks: those start_monitoring created (monitor_task is the *)
(* latest, None while there is none) and, for the store, whether the       *)
(* object was destroyed.                                                   *)
(***************************************************************************)
VARIABLES
    monitor_tasks,        \* the tasks created by start_monitoring, in order
    destroyed,            \* EnhancedLogCapture.__del__ has run
    task_op               \* history: the latest start / stop / loop step

taskVars == <<monitor_tasks, destroyed, task_op>>

\* ---- timestamps -------------------------------------------------------
TimeRange == 0..MaxNow

\* datetime.now(UTC).isoformat(): an offset-aware ISO-8601 string
IsoFormat(t) == ToString(t) \o "+00:00"

\* the same instant written with the Z suffix (structlog's TimeStamper)
IsoZ(t) == ToString(t) \o "Z"

\* the same instant without an offset: parses to a naive datetime
IsoNaive(t) == ToString(t)

\* lines 302-304: a trailing / any 'Z' is replaced by '+00:00'
ReplaceZ(s) == IF \E t \in TimeRange : s = IsoZ(t)
               THEN IsoFormat(CHOOSE t \in TimeRange : s = IsoZ(t))
               ELSE s

\* datetime.fromisoformat: [kind |-> "aware" | "naive", t] or a ValueError
FromIsoFormat(s) ==
    IF \E t \in TimeRange : s = IsoFormat(t)
    THEN [kind |-> "aware", t |-> CHOOSE t \in TimeRange : s = IsoFormat(t)]
    ELSE IF \E t \in TimeRange : s = IsoNaive(t)
    THEN [kind |-> "naive", t |-> CHOOSE t \in TimeRange : s = IsoNaive(t)]
    ELSE [kind |-> "ValueError", t |-> 0]

\* ---- records ----------------------------------------------------------
\* a record handed to add_entry; ws_only is the '_websocket_only' flag
InEntry(ev, ts, rid, lvl, ws) ==
    [event |-> ev, timestamp |-> ts, request_id |-> rid, level |-> lvl,
     ws_only |-> ws]

\* the records producers hand in
EntryInputs ==
    { InEntry("a",  Absent,           "1",    Absent,  FALSE),
      InEntry("a1", Absent,           Absent, Absent,  FALSE),
      InEntry("b",  IsoZ(0),          Absent, "error", TRUE),
      InEntry("c",  "x",              Absent, Absent,  FALSE) }

\* dict.get(key, '')
GetOr(e, v) == IF v = Absent THEN "" ELSE v

\* the (event, timestamp, request_id, level) tuple as the producer supplied it,
\* absent fields counting as empty
TupleOf(e) == <<GetOr(e, e.event), GetOr(e, e.timestamp),
                GetOr(e, e.request_id), GetOr(e, e.level)>>

\* line 357-358: the four fields formatted into one string without separators;
\* md5 of that string is taken as injective, so the string stands for the hash
EntryHash(e) == GetOr(e, e.event) \o GetOr(e, e.timestamp)
                \o GetOr(e, e.request_id) \o GetOr(e, e.level)

\* line 353: not entry.get('_websocket_only') and not self.has_subscribers()
HasSubscribers == Len(subscribers) > 0

Suppressed(e) == ~e.ws_only /\ ~HasSubscribers

\* lines 374-383: stamp timestamp / level / session_age (session_start_time is 0),
\* strip the keys that start with '_'
CleanEntry(e, now) ==
    [event |-> e.event,
     timestamp |-> IF e.timestamp = Absent THEN IsoFormat(now) ELSE e.timestamp,
     request_id |-> e.request_id,
     level |-> IF e.level = Absent THEN "info" ELSE e.level,
     session_age |-> now]

\* (mutant) a plain list append, without the deque's maxlen
DequeAppendUnbounded(d, x, maxlen) == Append(d, x)

\* line 386: deque.append with maxlen
DequeAppend(d, x, maxlen) == LastN(Append(d, x), maxlen)

\* n keys of h (all of h when it has fewer)
RECURSIVE SomeKeys(_, _)
SomeKeys(h, n) ==
    IF n = 0 \/ h = {} THEN {}
    ELSE LET k == CHOOSE x \in h : TRUE
         IN  {k} \cup SomeKeys(h \ {k}, n - 1)

\* lines 370-371: set(list(self._recent_hashes)[-50:]); a set of strings iterates
\* in hash order, so which keys are the last 50 is not determined by the
\* program: any key may be among them and any key may be missing.  Of the
\* possible results, one that lacks k and one that holds k, for every key k
PrunedHashes(h) ==
    IF Cardinality(h) > RecentHashesLimit
    THEN {SomeKeys(h \ {k}, RecentHashesKeep) : k \in h}
            \cup {{k} \cup SomeKeys(h \ {k}, RecentHashesKeep - 1) : k \in h}
    ELSE {h}

\* lines 425-431
get_recent_entries(limit) ==
    IF limit >= Len(entries) THEN entries
    ELSE IF limit = 0 THEN entries  \* list(d)[-0:] is the whole list
    ELSE LastN(entries, limit)

\* (mutant) an `if` in place of the `while`: at most one record is popped
TrimExpiredOnce(es, cutoff) ==
    IF es = <<>> THEN es
    ELSE LET s == Head(es).timestamp
             p == FromIsoFormat(ReplaceZ(s))
         IN  IF s = Absent \/ s = "" THEN Tail(es)
             ELSE IF p.kind = "aware" /\ p.t >= cutoff THEN es ELSE Tail(es)

\* lines 294-315: pop from the left while the oldest record is expired,
\* unparsable, naive (the comparison raises TypeError) or without a timestamp
RECURSIVE TrimExpired(_, _)
TrimExpired(es, cutoff) ==
    IF es = <<>> THEN es
    ELSE LET s == Head(es).timestamp
             p == FromIsoFormat(ReplaceZ(s))
         IN  IF s = Absent \/ s = "" THEN TrimExpired(Tail(es), cutoff)
             ELSE IF p.kind = "aware"
                  THEN IF p.t < cutoff THEN TrimExpired(Tail(es), cutoff)
                       ELSE es
                  ELSE TrimExpired(Tail(es), cutoff)

\* an asyncio.Task running a periodic loop: where its coroutine stands
\* ("created": not yet run, "sleep": in asyncio.sleep(interval), "inside":
\* suspended inside the awaited check, "returned": the loop was left by
\* break, "cancelled": ended by CancelledError) and whether a cancellation
\* was requested and is not yet delivered
NewTask == [pc |-> "created", must_cancel |-> FALSE]

\* Task.done()
Finished(t) == t.pc \in {"returned", "cancelled"}

\* Task.cancel() on a task that is not done: CancelledError is thrown into
\* the coroutine at its next step
CancelRequested(t) == [t EXCEPT !.must_cancel = TRUE]

InitStore ==
    /\ entries = <<>>
    /\ subscribers = <<>>
    /\ recent_hashes = {}
    /\ notify_tasks = <<>>
    /\ cleanup_task \in {"none", "running"}   \* lines 257-262: is a loop running?
    /\ cleanup_tasks = IF cleanup_task = "running" THEN <<NewTask>> ELSE <<>>
    /\ destroyed = FALSE
    /\ store_now = 0
    /\ accepted = <<>>
    /\ cleaned = 0
    /\ seen_tuples = {}
    /\ window_tuples = {}
    /\ last_op = "init"

\* lines 214-216
add_subscriber(s) ==
    /\ Len(subscribers) < MaxSubscribers
    /\ subscribers' = Append(subscribers, s)
    /\ UNCHANGED <<entries, recent_hashes, notify_tasks, cleanup_task, cleanup_tasks, store_now,
                   accepted, cleaned, seen_tuples, window_tuples>>
    /\ last_op' = "other"

\* lines 218-221
remove_subscriber(s) ==
    /\ subscribers' = RemoveFirst(subscribers, s)
    /\ UNCHANGED <<entries, recent_hashes, notify_tasks, cleanup_task, cleanup_tasks, store_now,
                   accepted, cleaned, seen_tuples, window_tuples>>
    /\ last_op' = "other"

\* lines 345-350: (re)start the cleanup task when a loop is running
StartedCleanupTask(loop) == IF loop THEN "running" ELSE cleanup_task

\* (mutant) a task is created whether or not one is still running
NeedsTaskAlways(tasks) == TRUE

\* logging_config.py line 345, performance_monitor.py line 53:
\* `task is None or task.done()`
NeedsTask(tasks) == tasks = <<>> \/ Finished(tasks[Len(tasks)])

\* lines 345-350 (and 53-59 of performance_monitor.py): create_task when
\* needed and a loop is running (else RuntimeError, swallowed)
StartedTasks(tasks, loop) ==
    IF NeedsTask(tasks) /\ loop THEN Append(tasks, NewTask) ELSE tasks

\* (mutant) the flag test negated
SkipEntryFlagSlip(e) == e.ws_only /\ ~HasSubscribers

\* lines 352-354: the early return of add_entry
SkipEntry(e) == Suppressed(e)

\* lines 361-363: the duplicate check
IsDuplicate(e) == EntryHash(e) \in recent_hashes

\* lines 340-397; loop: whether the caller runs inside an event loop
add_entry(e, loop) ==
    /\ cleanup_task' = StartedCleanupTask(loop)
    /\ cleanup_tasks' = StartedTasks(cleanup_tasks, loop)
    /\ UNCHANGED <<subscribers, store_now, cleaned>>
    /\ IF SkipEntry(e)
       THEN /\ last_op' = "suppressed"
            /\ UNCHANGED <<entries, recent_hashes, notify_tasks, accepted,
                           seen_tuples, window_tuples>>
       ELSE IF IsDuplicate(e)
       THEN /\ last_op' = "duplicate"
            /\ UNCHANGED <<entries, recent_hashes, notify_tasks, accepted,
                           seen_tuples, window_tuples>>
       ELSE /\ last_op' = "stored"
            /\ recent_hashes' \in PrunedHashes(recent_hashes \cup {EntryHash(e)})
            /\ entries' = DequeAppend(entries, CleanEntry(e, store_now), MaxEntries)
            /\ accepted' = Append(accepted, CleanEntry(e, store_now))
            /\ seen_tuples' = seen_tuples \cup {TupleOf(e)}
            /\ window_tuples' =
                 IF Cardinality(recent_hashes) + 1 > RecentHashesLimit
                 THEN {} ELSE window_tuples \cup {TupleOf(e)}
            /\ IF HasSubscribers /\ loop
               THEN /\ Len(notify_tasks) < MaxNotifyTasks
                    /\ notify_tasks' = Append(notify_tasks, CleanEntry(e, store_now))
               ELSE UNCHANGED notify_tasks

\* lines 203-204: remove_subscriber for every session whose send failed
RECURSIVE RemoveAll(_, _)
RemoveAll(subs, failed) ==
    IF failed = {} THEN subs
    ELSE LET s == CHOOSE x \in failed : TRUE
         IN  RemoveAll(RemoveFirst(subs, s), failed \ {s})

\* lines 188-191
LogEntryMessage(entry) == [type |-> "log_entry", log |-> entry]

\* lines 195-199: the message is sent once for every place the session has in
\* the subscriber list, unless its send raises
FanOut(msg, failed) ==
    [s \in Sessions |->
        IF s \in failed THEN <<>>
        ELSE [i \in 1..Cardinality({j \in 1..Len(subscribers) : subscribers[j] = s})
                 |-> msg]]

\* lines 184-204: the oldest waiting notification task runs and sends the
\* record to the subscribers itself; the sends to the sessions in `failed`
\* raise, and those sessions are removed from the subscriber list afterwards
notify_subscribers_async(failed) ==
    /\ notify_tasks # <<>>
    /\ failed \subseteq Range(subscribers)
    /\ notify_tasks' = Tail(notify_tasks)
    /\ sent_now' = FanOut(LogEntryMessage(Head(notify_tasks)), failed)
    /\ subscribers' = RemoveAll(subscribers, failed)
    /\ UNCHANGED <<entries, recent_hashes, cleanup_task, cleanup_tasks, store_now, accepted,
                   cleaned, seen_tuples, window_tuples>>
    /\ last_op' = "other"

\* lines 285-338 (the periodic task of lines 270-283 calls it after each sleep;
\* tests and cleanup_immediately call it at any time)
perform_cleanup ==
    /\ entries' = TrimExpired(entries, store_now - MaxAgeSeconds)
    /\ cleaned' = cleaned + (Len(entries) - Len(entries'))
    /\ UNCHANGED <<subscribers, recent_hashes, notify_tasks, cleanup_task, cleanup_tasks,
                   store_now, accepted, seen_tuples, window_tuples>>
    /\ last_op' = "cleanup"

\* time passes
StoreTick ==
    /\ store_now < MaxNow
    /\ store_now' = store_now + 1
    /\ UNCHANGED <<entries, subscribers, recent_hashes, notify_tasks, cleanup_task, cleanup_tasks,
                   accepted, cleaned, seen_tuples, window_tuples>>
    /\ last_op' = "other"


(***************************************************************************)
(* ThrottledBroadcaster and LogStreamManager (websocket_handlers.py).      *)
(***************************************************************************)

\* ticks per second; 1/64 s keeps 0.5 s * 1.5^k exact up to the 2.0 s cap
TicksPerSec == 2^6

\* settings.throttle_batch_interval, 0.5 s
throttle_batch_interval == TicksPerSec \div 2
\* settings.throttle_max_batch_size
throttle_max_batch_size == 100
\* settings.throttle_circuit_breaker_threshold (messages per second)
circuit_breaker_threshold == 50
\* settings.throttle_circuit_breaker_window, 10 s
circuit_breaker_window == 10 * TicksPerSec
\* settings.throttle_circuit_breaker_recovery_time, 30 s
circuit_breaker_recovery_time == 30 * TicksPerSec
\* the 2.0 s cap / emergency interval of the degradation handler
DegradedBatchInterval == 2 * TicksPerSec
\* the emergency batch size of the degradation handler
EmergencyMaxBatchSize == 50
\* the limit connect() passes to get_recent_entries
HistoryLimit == 50

\* constructor arguments of a stand-alone broadcaster
MaxBatchSizeArg == 2
BatchIntervalArgs == {throttle_batch_interval, 10 * TicksPerSec}
\* accepted queue_message calls per behaviour
MaxCalls == 3

\* beyond this value of current_time - last_flush_time nothing distinguishes
\* two instants
TimeSat == circuit_breaker_recovery_time + 1
\* the instants (since the last flush) at which the model looks at the clock
Checkpoints ==
    {1, 2, throttle_batch_interval, TicksPerSec, circuit_breaker_window,
     circuit_breaker_recovery_time, TimeSat}

NoSends == [s \in Sessions |-> <<>>]

\* no _direct_broadcast has run
NoPass == [phase |-> "idle", of |-> "none", order |-> <<>>, pos |-> 0,
           failed |-> {}, got |-> [s \in Sessions |-> 0], propagated |-> FALSE]
\* flush_task is None / a finished task / the timer task in its sleep
NoTask == [state |-> "none", left |-> 0]
DoneTask == [state |-> "done", left |-> 0]
Sleeping(n) == [state |-> "sleeping", left |-> n]
TimerSleeping == flush_task.state = "sleeping"

\* lines 88-93 (the envelope's timestamp is not modelled)
BatchUpdate(msgs) ==
    [type |-> "batch_update", messages |-> msgs, batch_size |-> Len(msgs)]

\* lines 140: the recovery test of _check_circuit_breaker
Recovered == rate_limit_active /\ since_flush > circuit_breaker_recovery_time

\* (mutant) recovery that keeps the message count
CountAfterRecoveryKept == message_count

\* lines 140-143
CountAfterRecovery == IF Recovered THEN 0 ELSE message_count

\* (mutant) the rate as get_stats computes it, over max(elapsed, 1 s)
RateExceedsOverMax(count, elapsed) ==
    count * TicksPerSec > circuit_breaker_threshold * Max(elapsed, TicksPerSec)

\* lines 147-148: rate = count / min(elapsed or 1, window) > threshold,
\* cross-multiplied (elapsed and window in ticks)
RateExceeds(count, elapsed) ==
    count * TicksPerSec >
        circuit_breaker_threshold *
            Min(IF elapsed = 0 THEN TicksPerSec ELSE elapsed, circuit_breaker_window)

\* lines 135-152: the value _check_circuit_breaker returns (and leaves in
\* rate_limit_active)
check_circuit_breaker ==
    IF rate_limit_active /\ ~Recovered THEN TRUE
    ELSE RateExceeds(CountAfterRecovery, since_flush)

\* lines 154-166 (the fields that do not depend on rounding)
get_stats ==
    [pending_messages |-> Len(pending_messages),
     total_messages |-> message_count,
     circuit_breaker_active |-> rate_limit_active]

\* (mutant) the direct send consulting the circuit breaker
DeliveredUnlessTripped(msg, failed) ==
    [s \in Sessions |->
        IF s \in active_connections \ failed /\ ~rate_limit_active
        THEN <<msg>> ELSE <<>>]

\* lines 111-133 / 257-281: the message reaches every session whose send does
\* not raise; the sessions in `failed` are disconnected afterwards
Delivered(msg, failed) ==
    [s \in Sessions |->
        IF s \in active_connections \ failed THEN <<msg>> ELSE <<>>]

\* lines 220-233 for every session of `failed`
DisconnectAll(failed) ==
    /\ active_connections' = active_connections \ failed
    /\ subscribers' = RemoveAll(subscribers, failed)

\* lines 82-109 with a non-empty pending list, run to completion
FlushEffect(pend, failed) ==
    /\ failed \subseteq active_connections
    /\ sent_now' = Delivered(BatchUpdate(pend), failed)
    /\ DisconnectAll(failed)
    /\ pending_messages' = <<>>
    /\ since_flush' = 0
    /\ flush_task' = NoTask
    /\ flush_count' = flush_count + 1

\* history: the call counts for the first burst while nothing but
\* queue_message calls happened and batch_interval has not elapsed
BurstAfterCall ==
    IF burst \in 0..(max_batch_size - 1) /\ since_flush < batch_interval
    THEN burst + 1 ELSE -1

\* lines 45-64
Enqueue(message, failed) ==
    /\ has_broadcaster
    /\ rate_limit_active' = check_circuit_breaker
    /\ burst' = BurstAfterCall
    /\ UNCHANGED <<batch_interval, max_batch_size, has_broadcaster,
                   enable_message_throttling>>
    /\ IF check_circuit_breaker
       THEN /\ failed = {}
            /\ bc_op' = "dropped"
            /\ message_count' = CountAfterRecovery
            /\ sent_now' = NoSends
            /\ UNCHANGED <<pending_messages, flush_task, since_flush,
                           active_connections, subscribers, next_msg, flush_count>>
       ELSE /\ message_count' = CountAfterRecovery + 1
            /\ next_msg' = next_msg + 1
            /\ IF Len(pending_messages) + 1 >= max_batch_size
               THEN /\ bc_op' = "size_flush"
                    /\ FlushEffect(Append(pending_messages, message), failed)
               ELSE /\ failed = {}
                    /\ bc_op' = "queued"
                    /\ pending_messages' = Append(pending_messages, message)
                    /\ flush_task' = IF TimerSleeping THEN flush_task
                                     ELSE Sleeping(batch_interval)
                    /\ sent_now' = NoSends
                    /\ UNCHANGED <<since_flush, active_connections, subscribers,
                                   flush_count>>

\* lines 45-64, with at most MaxCalls messages accepted in a behaviour
QueueMessage(message, failed) ==
    /\ next_msg <= MaxCalls \/ rate_limit_active
    /\ Enqueue(message, failed)

\* lines 45-64, the message standing for itself: the number of the accepted
\* message
queue_message(failed) == QueueMessage(next_msg, failed)

\* lines 66-75: the timer task wakes and calls flush_batch, which cancels the
\* task it runs in (line 84); if a send then suspends, the cancellation is
\* raised there: the sessions in `got` have the envelope, nothing is cleared
timer_flush(failed, suspends, got) ==
    /\ TimerSleeping
    /\ flush_task.left = 0
    /\ burst' = -1
    /\ UNCHANGED <<batch_interval, max_batch_size, message_count, rate_limit_active,
                   has_broadcaster, enable_message_throttling, next_msg>>
    /\ IF pending_messages = <<>>
       THEN /\ failed = {} /\ ~suspends /\ got = {}
            /\ bc_op' = "timer_flush"
            /\ flush_task' = DoneTask
            /\ sent_now' = NoSends
            /\ UNCHANGED <<pending_messages, since_flush, active_connections,
                           subscribers, flush_count>>
       ELSE IF suspends /\ active_connections # {}
       THEN /\ failed = {}
            /\ got \subseteq active_connections
            /\ bc_op' = "timer_cancelled"
            /\ flush_task' = NoTask
            /\ sent_now' = [s \in Sessions |->
                              IF s \in got THEN <<BatchUpdate(pending_messages)>>
                              ELSE <<>>]
            /\ UNCHANGED <<pending_messages, since_flush, active_connections,
                           subscribers, flush_count>>
       ELSE /\ ~suspends /\ got = {}
            /\ bc_op' = "timer_flush"
            /\ FlushEffect(pending_messages, failed)

\* lines 327-330 and 77-109, called from a task other than the timer
flush_pending_messages(failed) ==
    /\ burst' = -1
    /\ bc_op' = "manual_flush"
    /\ UNCHANGED <<batch_interval, max_batch_size, message_count, rate_limit_active,
                   has_broadcaster, enable_message_throttling, next_msg>>
    /\ IF has_broadcaster /\ enable_message_throttling /\ pending_messages # <<>>
       THEN FlushEffect(pending_messages, failed)
       ELSE /\ failed = {}
            /\ sent_now' = NoSends
            /\ UNCHANGED <<pending_messages, flush_task, since_flush,
                           active_connections, subscribers, flush_count>>

\* the clock is read t ticks after the last flush
advance_time(t) ==
    /\ t > since_flush
    /\ since_flush' = t
    /\ flush_task' = IF TimerSleeping
                     THEN Sleeping(Max(0, flush_task.left - (t - since_flush)))
                     ELSE flush_task
    /\ UNCHANGED <<batch_interval, max_batch_size, pending_messages, message_count,
                   rate_limit_active, has_broadcaster, enable_message_throttling,
                   active_connections, subscribers, next_msg, sent_now,
                   flush_count, burst, bc_op>>

\* lines 193-218; history_ok: the log_history send does not raise
connect(ws, history_ok) ==
    /\ ws \notin active_connections
    /\ active_connections' = active_connections \cup {ws}
    /\ subscribers' = Append(subscribers, ws)
    /\ sent_now' = [NoSends EXCEPT ![ws] =
                      IF get_recent_entries(HistoryLimit) # <<>> /\ history_ok
                      THEN <<[type |-> "log_history",
                              logs |-> get_recent_entries(HistoryLimit)]>>
                      ELSE <<>>]
    /\ burst' = IF burst = 0 THEN 0 ELSE -1
    /\ bc_op' = "connect"
    /\ UNCHANGED <<batch_interval, max_batch_size, pending_messages, flush_task,
                   since_flush, message_count, rate_limit_active, has_broadcaster,
                   enable_message_throttling, next_msg, flush_count>>

\* lines 220-233
disconnect(ws) ==
    /\ ws \in active_connections
    /\ DisconnectAll({ws})
    /\ sent_now' = NoSends
    /\ bc_op' = "disconnect"
    /\ UNCHANGED <<batch_interval, max_batch_size, pending_messages, flush_task,
                   since_flush, message_count, rate_limit_active, has_broadcaster,
                   enable_message_throttling, next_msg, flush_count, burst>>

\* what a send_json call can raise
DisconnectErrors == {"WebSocketDisconnect", "ConnectionClosed", "RuntimeError"}
SendErrors == DisconnectErrors \cup {"ValueError"}

\* (mutant) the second except clause left out
CaughtDisconnectsOnly(exc) == exc \in DisconnectErrors

\* lines 119-130 / 264-277: the first except clause takes the disconnect
\* errors, the second every other Exception
Caught(exc) == exc \in DisconnectErrors \/ exc \in SendErrors

\* lines 116 / 261: list(active_connections); active_connections is a set, which
\* iterates in hash order, so the snapshot can come in any order
Orders(S) == {q \in [1..Cardinality(S) -> S] : Range(q) = S}

\* the message of a pass: a flushed batch or a directly broadcast record
PassMessage(of) ==
    IF of = "flush" THEN BatchUpdate(<<1>>) ELSE [type |-> "log_entry", log |-> "m"]

passFrame == <<batch_interval, max_batch_size, pending_messages, flush_task,
               since_flush, message_count, rate_limit_active, has_broadcaster,
               enable_message_throttling, next_msg, flush_count, burst>>

\* lines 111-118 / 257-263: _direct_broadcast takes its snapshot and waits in
\* the first send
begin_pass(of, order) ==
    /\ send_pass.phase \in {"idle", "done"}
    /\ active_connections # {}
    /\ order \in Orders(active_connections)
    /\ send_pass' = [NoPass EXCEPT !.phase = "sending", !.of = of, !.order = order]
    /\ sent_now' = NoSends
    /\ bc_op' = "begin_pass"
    /\ UNCHANGED <<active_connections, subscribers, passFrame>>

\* lines 118-133 / 261-281: the send the pass waits in returns or raises exc;
\* the pass goes on to the next session of the snapshot, and after the last
\* one disconnects the sessions it collected (disconnect, lines 220-233,
\* skips a session that is registered no longer and awaits nothing)
send_step(exc) ==
    /\ send_pass.phase = "sending"
    /\ LET s == send_pass.order[send_pass.pos + 1]
           ok == exc = "none"
           failed == IF ok THEN send_pass.failed ELSE send_pass.failed \cup {s}
           last == send_pass.pos + 1 = Len(send_pass.order)
       IN  /\ sent_now' = [NoSends EXCEPT
                             ![s] = IF ok THEN <<PassMessage(send_pass.of)>> ELSE <<>>]
           /\ IF ~ok /\ ~Caught(exc)
              THEN /\ send_pass' = [send_pass EXCEPT !.phase = "done", !.pos = @ + 1,
                                                     !.propagated = TRUE]
                   /\ UNCHANGED <<active_connections, subscribers>>
              ELSE /\ send_pass' =
                        [send_pass EXCEPT
                            !.phase = IF last THEN "done" ELSE "sending",
                            !.pos = @ + 1,
                            !.failed = failed,
                            !.got = [@ EXCEPT ![s] = @ + (IF ok THEN 1 ELSE 0)]]
                   /\ IF last
                      THEN DisconnectAll(failed \cap active_connections)
                      ELSE UNCHANGED <<active_connections, subscribers>>
    /\ bc_op' = "send"
    /\ UNCHANGED passFrame

\* lines 257-281: the manager's direct broadcast
direct_broadcast(message, failed) ==
    /\ failed \subseteq active_connections
    /\ sent_now' = Delivered(message, failed)
    /\ DisconnectAll(failed)

\* lines 248-255
broadcast_log_immediate(log_entry, failed) ==
    /\ bc_op' = "broadcast_log_immediate"
    /\ burst' = (IF burst = 0 THEN 0 ELSE -1)
    /\ UNCHANGED <<batch_interval, max_batch_size, pending_messages, flush_task,
                   since_flush, message_count, rate_limit_active, has_broadcaster,
                   enable_message_throttling, next_msg, flush_count>>
    /\ IF active_connections = {}
       THEN /\ failed = {}
            /\ sent_now' = NoSends
            /\ UNCHANGED <<active_connections, subscribers>>
       ELSE direct_broadcast(LogEntryMessage(log_entry), failed)

\* (mutant) the early return on an empty registry dropped
ReturnsEarlyNever == FALSE

\* lines 237-238 / 285-286: nothing is done without active connections
ReturnsEarly == active_connections = {}

\* lines 240-246 / 288-294: the message goes to the broadcaster's
\* queue_message when throttling is enabled, else to the direct broadcast
Route(message, failed) ==
    IF ReturnsEarly
    THEN /\ failed = {}
         /\ bc_op' = "no_connections"
         /\ sent_now' = NoSends
         /\ UNCHANGED <<batch_interval, max_batch_size, pending_messages, flush_task,
                        since_flush, message_count, rate_limit_active,
                        has_broadcaster, enable_message_throttling,
                        active_connections, subscribers, next_msg, flush_count, burst>>
    ELSE IF has_broadcaster /\ enable_message_throttling
    THEN QueueMessage(message, failed)
    ELSE /\ bc_op' = "direct"
         /\ direct_broadcast(message, failed)
         /\ UNCHANGED <<batch_interval, max_batch_size, pending_messages, flush_task,
                        since_flush, message_count, rate_limit_active,
                        has_broadcaster, enable_message_throttling, next_msg,
                        flush_count, burst>>

\* lines 235-246
broadcast_log(log_entry, failed) == Route(LogEntryMessage(log_entry), failed)

\* line 288
StatusMessage(status) == [type |-> "status_update", status |-> status]

\* lines 283-294
send_status_update(status, failed) == Route(StatusMessage(status), failed)

\* lines 296-303 (with 257-281)
send_status_update_immediate(status, failed) ==
    /\ failed \subseteq active_connections
    /\ sent_now' = Delivered([type |-> "status_update", status |-> status], failed)
    /\ DisconnectAll(failed)

\* lines 296-303, called by a producer of status updates
status_update_immediate(status, failed) ==
    /\ bc_op' = "send_status_update_immediate"
    /\ burst' = (IF burst = 0 THEN 0 ELSE -1)
    /\ UNCHANGED <<batch_interval, max_batch_size, pending_messages, flush_task,
                   since_flush, message_count, rate_limit_active, has_broadcaster,
                   enable_message_throttling, next_msg, flush_count>>
    /\ send_status_update_immediate(status, failed)

\* (mutant) the cap applied before the multiplication
StandardIntervalCapFirst(old) == (Min(DegradedBatchInterval, old) * 3) \div 2

\* line 347: min(2.0, old_interval * 1.5)
StandardInterval(old) == Min(DegradedBatchInterval, (old * 3) \div 2)

\* lines 332-385
handle_performance_degradation(level, lag_ms, failed) ==
    /\ burst' = -1
    /\ bc_op' = level
    /\ UNCHANGED <<pending_messages, flush_task, since_flush, message_count,
                   rate_limit_active, has_broadcaster, enable_message_throttling,
                   next_msg, flush_count>>
    /\ IF ~has_broadcaster \/ ~enable_message_throttling
       THEN /\ failed = {}
            /\ sent_now' = NoSends
            /\ UNCHANGED <<batch_interval, max_batch_size, active_connections,
                           subscribers>>
       ELSE CASE level = "standard" ->
                   /\ failed = {}
                   /\ batch_interval' = StandardInterval(batch_interval)
                   /\ sent_now' = NoSends
                   /\ UNCHANGED <<max_batch_size, active_connections, subscribers>>
              [] level = "emergency" ->
                   /\ batch_interval' = DegradedBatchInterval
                   /\ max_batch_size' = EmergencyMaxBatchSize
                   /\ send_status_update_immediate(
                         [performance_mode |-> "degraded",
                          reason |-> "high_system_load", lag_ms |-> lag_ms], failed)
              [] level = "recovery" ->
                   /\ batch_interval' = throttle_batch_interval
                   /\ max_batch_size' = throttle_max_batch_size
                   /\ send_status_update_immediate(
                         [performance_mode |-> "normal",
                          reason |-> "system_load_recovered"], failed)

(***************************************************************************)
(* SimpleEventLoopMonitor (performance_monitor.py).  A lag is a whole      *)
(* number of milliseconds.                                                 *)
(***************************************************************************)

\* settings.performance_monitor_max_lag_ms
max_lag_ms == 40
\* settings.performance_monitor_severe_lag_threshold_multiplier
severe_lag_threshold_multiplier == 3
\* line 43
severe_lag_threshold == max_lag_ms * severe_lag_threshold_multiplier
\* settings.performance_monitor_max_severe_lag_count
max_severe_lag_count == 5
\* max_measurements, the length of the measurement ring (100 in the source)
MaxMeasurements == 1

\* the lags a check can measure: both sides of every threshold
LagChoices ==
    {0, max_lag_ms \div 2, max_lag_ms, max_lag_ms + 1,
     severe_lag_threshold, severe_lag_threshold + 1, 200}

\* the callbacks registered at start-up: the stream manager's handler
\* ("manager") and an observer; no callback is registered twice
CallbackLists ==
    {<<"cb">>, <<"manager">>, <<"manager", "cb">>, <<"cb", "manager">>}

\* lines 144-151 / 164-171 / 183-190: every registered callback is invoked
\* once, in registration order
Invocations(level, lag_ms) ==
    [i \in 1..Len(degradation_callbacks) |-> <<degradation_callbacks[i], level, lag_ms>>]

\* the callbacks that can raise: an observer; the stream manager's handler
\* catches the failures of its own sends (websocket_handlers.py lines 262-277)
CanRaise == Range(degradation_callbacks) \ {"manager"}

\* (mutant) the try statement around the loop instead of inside it: the
\* first callback that raises ends the loop
LastInvokedUnguarded(raising) ==
    IF \E i \in 1..Len(degradation_callbacks) : degradation_callbacks[i] \in raising
    THEN CHOOSE i \in 1..Len(degradation_callbacks) :
            /\ degradation_callbacks[i] \in raising
            /\ \A j \in 1..(i - 1) : degradation_callbacks[j] \notin raising
    ELSE Len(degradation_callbacks)

\* lines 145-151 / 165-171 / 184-190: each call sits in its own try / except
\* Exception inside the loop, so the loop reaches the last callback
LastInvoked(raising) == Len(degradation_callbacks)

\* the invocation of the callbacks: the stream manager's handler acts on the
\* broadcaster, an observer only records the event or raises
RunCallbacks(level, lag_ms) ==
    \E raising \in SUBSET CanRaise :
       /\ raised' = raising
       /\ dispatched' = SubSeq(Invocations(level, lag_ms), 1, LastInvoked(raising))
       /\ IF \E i \in 1..LastInvoked(raising) : degradation_callbacks[i] = "manager"
          THEN handle_performance_degradation(level, lag_ms, {})
          ELSE UNCHANGED <<bcVars, subscribers>>

NoCallbacks ==
    /\ dispatched' = <<>>
    /\ raised' = {}
    /\ UNCHANGED <<bcVars, subscribers>>

\* lines 98-100
RecordMeasurement(lag_ms) == LastN(Append(lag_measurements, lag_ms), max_measurements)

\* (mutant) the guard of trigger_degradation dropped
StandardSuppressedNever == FALSE

\* line 137: trigger_degradation does nothing while degradation is active
StandardSuppressed == degradation_active

\* lines 132-151
TriggerDegradation(lag_ms) ==
    IF StandardSuppressed
    THEN /\ NoCallbacks
         /\ UNCHANGED <<degradation_active, last_sr>>
    ELSE /\ degradation_active' = TRUE
         /\ last_sr' = "standard"
         /\ RunCallbacks("standard", lag_ms)

\* (mutant) the counter left as it is after the emergency callbacks
CountAfterEmergencyKept(n) == n

\* line 174
CountAfterEmergency(n) == 0

\* lines 153-174; n: severe_lag_count when the path is entered
TriggerEmergency(lag_ms, n) ==
    /\ RunCallbacks("emergency", lag_ms)
    /\ severe_lag_count' = CountAfterEmergency(n)
    /\ UNCHANGED <<degradation_active, last_sr>>

\* lines 176-190
Recover ==
    IF degradation_active
    THEN /\ degradation_active' = FALSE
         /\ last_sr' = "recovery"
         /\ RunCallbacks("recovery", 0)
    ELSE /\ NoCallbacks
         /\ UNCHANGED <<degradation_active, last_sr>>

\* history: the length of the current run of consecutive severe checks that
\* began with severe_lag_count = 0
RunAfterCheck(lag_ms) ==
    IF lag_ms > severe_lag_threshold
    THEN IF severe_run \in 1..(max_severe_lag_count - 1) THEN severe_run + 1
         ELSE IF severe_lag_count = 0 THEN 1 ELSE 0
    ELSE 0

\* lines 109-118: this check takes the emergency path
EmergencyDue(lag_ms) ==
    lag_ms > severe_lag_threshold /\ severe_lag_count + 1 >= max_severe_lag_count

\* (mutant) a clean check clears the counter instead of stepping it down
CountAfterCleanCleared(n) == 0

\* lines 124-125: a clean check steps the counter down, not below 0
CountAfterClean(n) == Max(0, n - 1)

\* lines 84-130
check_event_loop_lag(lag_ms) ==
    /\ lag_measurements' = RecordMeasurement(lag_ms)
    /\ mon_op' = [op |-> "check", lag_ms |-> lag_ms]
    /\ severe_run' = RunAfterCheck(lag_ms)
    /\ run_emergencies' = (IF RunAfterCheck(lag_ms) <= 1 THEN 0 ELSE run_emergencies)
                            + (IF EmergencyDue(lag_ms) THEN 1 ELSE 0)
    /\ UNCHANGED <<degradation_callbacks, max_measurements>>
    /\ IF lag_ms > max_lag_ms
       THEN IF lag_ms > severe_lag_threshold
            THEN IF severe_lag_count + 1 >= max_severe_lag_count
                 THEN TriggerEmergency(lag_ms, severe_lag_count + 1)
                 ELSE /\ severe_lag_count' = severe_lag_count + 1
                      /\ NoCallbacks
                      /\ UNCHANGED <<degradation_active, last_sr>>
            ELSE /\ TriggerDegradation(lag_ms)
                 /\ UNCHANGED severe_lag_count
       ELSE /\ severe_lag_count' = CountAfterClean(severe_lag_count)
            /\ IF degradation_active /\ 2 * lag_ms < max_lag_ms
               THEN Recover
               ELSE /\ NoCallbacks
                    /\ UNCHANGED <<degradation_active, last_sr>>

\* lines 132-151, called directly
trigger_degradation(lag_ms) ==
    /\ mon_op' = [op |-> "trigger_degradation", lag_ms |-> lag_ms]
    /\ TriggerDegradation(lag_ms)
    /\ severe_run' = 0
    /\ run_emergencies' = 0
    /\ UNCHANGED <<severe_lag_count, lag_measurements, degradation_callbacks,
                   max_measurements>>

\* lines 153-174, called directly
trigger_emergency_degradation(lag_ms) ==
    /\ mon_op' = [op |-> "trigger_emergency_degradation", lag_ms |-> lag_ms]
    /\ TriggerEmergency(lag_ms, severe_lag_count)
    /\ severe_run' = 0
    /\ run_emergencies' = 0
    /\ UNCHANGED <<lag_measurements, degradation_callbacks, max_measurements>>

\* lines 176-190, called directly
recover_from_degradation ==
    /\ mon_op' = [op |-> "recover_from_degradation", lag_ms |-> 0]
    /\ Recover
    /\ severe_run' = 0
    /\ run_emergencies' = 0
    /\ UNCHANGED <<severe_lag_count, lag_measurements, degradation_callbacks,
                   max_measurements>>

\* line 250: the measurements is_healthy averages over
RecentWindow == 5

RECURSIVE Sum(_)
Sum(s) == IF s = <<>> THEN 0 ELSE Head(s) + Sum(Tail(s))

\* (mutant) the average taken over every measurement kept
RecentLagsAll == lag_measurements

\* line 250: lag_measurements[-5:]
RecentLags == LastN(lag_measurements, RecentWindow)

\* lines 245-257; avg <= max_lag_ms is written without the division
is_healthy ==
    IF lag_measurements = <<>>
    THEN TRUE
    ELSE /\ Sum(RecentLags) <= max_lag_ms * Len(RecentLags)
         /\ ~degradation_active
         /\ severe_lag_count = 0

\* lines 207-243 (the fields that do not depend on rounding)
get_performance_stats ==
    IF lag_measurements = <<>>
    THEN [status |-> "no_measurements", degradation_active |-> degradation_active]
    ELSE [status |-> "active", degradation_active |-> degradation_active,
          severe_lag_count |-> severe_lag_count,
          measurements_count |-> Len(lag_measurements),
          callback_count |-> Len(degradation_callbacks)]

\* websocket_handlers.py lines 309-325
get_throttling_stats ==
    IF has_broadcaster /\ enable_message_throttling
    THEN [active_connections |-> Cardinality(active_connections),
          pending_messages |-> get_stats.pending_messages,
          total_messages |-> get_stats.total_messages,
          circuit_breaker_active |-> get_stats.circuit_breaker_active]
    ELSE [active_connections |-> Cardinality(active_connections),
          throttling_enabled |-> FALSE,
          pending_messages |-> 0,
          total_messages |-> 0,
          circuit_breaker_active |-> FALSE]

\* what a read-only call hands back: a value, or the exception it raised
Returns(call, value) == [call |-> call, raised |-> "none", value |-> value]

Raises(call, exception) ==
    [call |-> call, raised |-> exception, value |-> [result |-> FALSE]]

\* websocket_handlers.py lines 387-396.  Line 395 evaluates
\* is_healthy() and not self.throttled_broadcaster.rate_limit_active: when
\* is_healthy() is true the attribute of throttled_broadcaster is read, and
\* that is None when the manager was constructed with throttling disabled
get_performance_integrated_stats ==
    /\ returned' =
          IF is_healthy /\ ~has_broadcaster
          THEN Raises("get_performance_integrated_stats", "AttributeError")
          ELSE Returns("get_performance_integrated_stats",
                       [websocket |-> get_throttling_stats,
                        event_loop |-> get_performance_stats,
                        integrated_health |-> is_healthy /\ ~rate_limit_active])
    /\ UNCHANGED <<storeVars, bcVars, monVars, taskVars, announced, send_pass>>

(***************************************************************************)
(* capture_logs_processor, the structlog processor that feeds the store    *)
(* (logging_config.py lines 41-61).                                        *)
(***************************************************************************)

\* the event record a logger call hands down the processor chain; captured
\* is its '_captured' key
EventDict(ev, ts, rid, lvl, captured) ==
    [event |-> ev, timestamp |-> ts, request_id |-> rid, level |-> lvl,
     ws_only |-> FALSE, captured |-> captured]

EventDicts ==
    { EventDict("a", Absent,  "1",    Absent,  FALSE),
      EventDict("b", IsoZ(0), Absent, "error", FALSE),
      EventDict("c", Absent,  Absent, Absent,  TRUE) }

\* lines 51-53: the copy handed to add_entry, with both flags set
CaptureEntry(d) == InEntry(d.event, d.timestamp, d.request_id, d.level, TRUE)

\* (mutant) add_entry given the event record itself: the flags and, when
\* add_entry stores the record, its stamps are written into the record the
\* sink goes on to receive
SinkRecordAliased(d, stamped, now) ==
    [event |-> d.event,
     timestamp |-> IF stamped /\ d.timestamp = Absent THEN IsoFormat(now)
                   ELSE d.timestamp,
     request_id |-> d.request_id,
     level |-> IF stamped /\ d.level = Absent THEN "info" ELSE d.level,
     ws_only |-> TRUE, captured |-> TRUE]

\* lines 51 and 60: add_entry works on dict(event_dict), a copy, and the
\* processor returns event_dict
SinkRecord(d, stamped, now) == d

\* lines 41-61; enabled: settings.enable_log_capture; loop: the caller runs
\* inside an event loop; raises: add_entry raises (line 55 catches it)
capture_logs_processor(d, enabled, loop, raises) ==
    IF d.captured \/ ~enabled \/ ~HasSubscribers
    THEN /\ ~raises
         /\ returned' = Returns("capture_logs_processor", [result |-> d])
         /\ last_op' = "other"
         /\ UNCHANGED <<entries, subscribers, recent_hashes, notify_tasks,
                        cleanup_task, cleanup_tasks, store_now, accepted, cleaned, seen_tuples,
                        window_tuples>>
    ELSE IF raises
    THEN /\ returned' = Returns("capture_logs_processor",
                                [result |-> SinkRecord(d, FALSE, store_now)])
         /\ last_op' = "raised"
         /\ cleanup_task' = StartedCleanupTask(loop)
         /\ cleanup_tasks' = StartedTasks(cleanup_tasks, loop)
         /\ UNCHANGED <<entries, subscribers, recent_hashes, notify_tasks,
                        store_now, accepted, cleaned, seen_tuples, window_tuples>>
    ELSE /\ add_entry(CaptureEntry(d), loop)
         /\ returned' = Returns("capture_logs_processor",
                                [result |-> SinkRecord(d, last_op' = "stored", store_now)])

(***************************************************************************)
(* The periodic tasks (performance_monitor.py 51-82, logging_config.py     *)
(* 270-284 and 445-448).  A task advances one step at a time, from one     *)
(* suspension point to the next; Task.cancel() only requests the           *)
(* cancellation, which the task's next step delivers.                      *)
(***************************************************************************)

NoTaskOp == [op |-> "init", task |-> 0, acted |-> FALSE]

\* op: the operation, or where a step of a loop left the task; task: the
\* task concerned; acted: a start created a task, a stop cancelled one, a
\* step ran a check or resumed the task inside one
TaskOp(op, task, acted) == [op |-> op, task |-> task, acted |-> acted]

\* self.monitor_task: the latest task created, 0 for None
monitor_task == Len(monitor_tasks)

\* `task and not task.done()` (performance_monitor.py 63, logging_config.py 447)
Unfinished(tasks) == tasks # <<>> /\ ~Finished(tasks[Len(tasks)])

\* task.cancel() on the task the field refers to
CancelLatest(tasks) ==
    IF Unfinished(tasks)
    THEN [tasks EXCEPT ![Len(tasks)] = CancelRequested(@)]
    ELSE tasks

\* (mutant) the loop swallows the cancellation and goes on
AfterCancelGoesOn == "sleep"

\* lines 78-79 (logging_config.py 279-281): `except asyncio.CancelledError: break`
AfterCancel == "returned"

At(pc) == [pc |-> pc, must_cancel |-> FALSE]

\* One step of a task running `while True: try: await sleep(interval);
\* await check() except CancelledError: break; except Exception: log`.
\* suspended: the check it runs now suspends inside (an awaited callback
\* waiting in a send).  A cancellation delivered before the first step
\* ends the task without its coroutine ever running; one delivered in the
\* sleep or inside the check is caught by the loop.
LoopStep(t, suspended) ==
    CASE t.pc = "created" ->
            IF t.must_cancel THEN At("cancelled") ELSE At("sleep")
      [] t.pc = "sleep" ->
            IF t.must_cancel THEN At(AfterCancel)
            ELSE IF suspended THEN At("inside") ELSE At("sleep")
      [] t.pc = "inside" ->
            IF t.must_cancel THEN At(AfterCancel) ELSE At("sleep")
      [] OTHER -> t

\* the task's step runs a check: it was asleep and is not being cancelled
RunsCheck(t) == t.pc = "sleep" /\ ~t.must_cancel

\* the lag the monitor task measures in the model of the periodic tasks: a
\* severe one, so that the third check makes the manager's handler send
TaskLags == {severe_lag_threshold + 1}

\* performance_monitor.py lines 51-59; loop: a loop is running
start_monitoring(loop) ==
    /\ monitor_tasks' = StartedTasks(monitor_tasks, loop)
    /\ task_op' = TaskOp("start_monitoring", Len(monitor_tasks'),
                         monitor_tasks' # monitor_tasks)
    /\ UNCHANGED <<monVars, destroyed>>

\* performance_monitor.py lines 61-65 (main.py 44-47 calls it at shutdown)
stop_monitoring ==
    /\ monitor_tasks' = CancelLatest(monitor_tasks)
    /\ task_op' = TaskOp("stop_monitoring", monitor_task, Unfinished(monitor_tasks))
    /\ UNCHANGED <<monVars, destroyed>>

\* logging_config.py lines 445-448
del_store ==
    /\ ~destroyed
    /\ destroyed' = TRUE
    /\ cleanup_tasks' = CancelLatest(cleanup_tasks)
    /\ task_op' = TaskOp("del", Len(cleanup_tasks), Unfinished(cleanup_tasks))
    /\ UNCHANGED <<entries, subscribers, recent_hashes, notify_tasks, cleanup_task,
                   store_now, accepted, cleaned, seen_tuples, window_tuples,
                   last_op, monitor_tasks>>

\* a check sent something to a session: its callback awaited a send
SentSomething == \E s \in Sessions : sent_now' [s] # <<>>

\* performance_monitor.py lines 67-82: the next step of monitor task i.
\* check_raises: the check it runs raises an Exception (caught and logged
\* by the loop, nothing of the check done)
periodic_check(i, check_raises, suspends) ==
    /\ i \in DOMAIN monitor_tasks
    /\ ~Finished(monitor_tasks[i])
    /\ UNCHANGED destroyed
    /\ IF RunsCheck(monitor_tasks[i])
       THEN IF check_raises
            THEN /\ ~suspends
                 /\ task_op' = TaskOp("check_raised", i, TRUE)
                 /\ monitor_tasks' = [monitor_tasks EXCEPT ![i] = LoopStep(@, FALSE)]
                 /\ UNCHANGED <<monVars, bcVars, subscribers>>
            ELSE /\ \E lag_ms \in TaskLags : check_event_loop_lag(lag_ms)
                 /\ suspends => SentSomething
                 /\ task_op' = TaskOp("check", i, TRUE)
                 /\ monitor_tasks' = [monitor_tasks EXCEPT ![i] = LoopStep(@, suspends)]
       ELSE /\ ~check_raises /\ ~suspends
            /\ task_op' = TaskOp(LoopStep(monitor_tasks[i], FALSE).pc, i,
                                 monitor_tasks[i].pc = "inside")
            /\ monitor_tasks' = [monitor_tasks EXCEPT ![i] = LoopStep(@, FALSE)]
            /\ UNCHANGED <<monVars, bcVars, subscribers>>

\* logging_config.py lines 270-284: the next step of cleanup task i;
\* _perform_cleanup awaits nothing, so the task is never suspended inside
periodic_cleanup(i, cleanup_raises) ==
    /\ i \in DOMAIN cleanup_tasks
    /\ ~Finished(cleanup_tasks[i])
    /\ cleanup_tasks' = [cleanup_tasks EXCEPT ![i] = LoopStep(@, FALSE)]
    /\ UNCHANGED <<monitor_tasks, destroyed>>
    /\ IF RunsCheck(cleanup_tasks[i])
       THEN IF cleanup_raises
            THEN /\ task_op' = TaskOp("cleanup_raised", i, TRUE)
                 /\ UNCHANGED <<entries, subscribers, recent_hashes, notify_tasks,
                                cleanup_task, store_now, accepted, cleaned,
                                seen_tuples, window_tuples, last_op>>
            ELSE /\ task_op' = TaskOp("cleanup", i, TRUE)
                 /\ entries' = TrimExpired(entries, store_now - MaxAgeSeconds)
                 /\ cleaned' = cleaned + (Len(entries) - Len(entries'))
                 /\ last_op' = "cleanup"
                 /\ UNCHANGED <<subscribers, recent_hashes, notify_tasks,
                                cleanup_task, store_now, accepted, seen_tuples,
                                window_tuples>>
       ELSE /\ ~cleanup_raises
            /\ task_op' = TaskOp(LoopStep(cleanup_tasks[i], FALSE).pc, i, FALSE)
            /\ UNCHANGED <<entries, subscribers, recent_hashes, notify_tasks,
                           cleanup_task, store_now, accepted, cleaned,
                           seen_tuples, window_tuples, last_op>>

(***************************************************************************)
(* Specifications: one per component, the other components at rest.        *)
(***************************************************************************)

\* no read-only call made yet
NoReturn == [call |-> "none", raised |-> "none", value |-> [result |-> FALSE]]

NothingReturned == returned = NoReturn

vars == <<storeVars, bcVars, monVars, returned, taskVars, announced, send_pass>>

\* everything of the store but the subscriber list, which the stream manager
\* changes on connect and disconnect
storeRest == <<entries, recent_hashes, notify_tasks, cleanup_task, cleanup_tasks, store_now,
               accepted, cleaned, seen_tuples, window_tuples, last_op>>

\* LogCapture as constructed, no cleanup task
StoreAtRest == InitStore /\ cleanup_task = "none"

\* lines 28-43 and 172-186: the stream manager and a broadcaster constructed
\* with the given arguments
InitManager(interval, size, created, enabled) ==
    /\ batch_interval = interval
    /\ max_batch_size = size
    /\ pending_messages = <<>>
    /\ flush_task = NoTask
    /\ since_flush = 0
    /\ message_count = 0
    /\ rate_limit_active = FALSE
    /\ has_broadcaster = created
    /\ enable_message_throttling = enabled
    /\ active_connections = {}
    /\ next_msg = 1
    /\ sent_now = NoSends
    /\ flush_count = 0
    /\ burst = 0
    /\ bc_op = "init"
    /\ since_trip = -1
    /\ in_flight = <<>>
    /\ orphan_timers = <<>>
    /\ batched = <<>>
    /\ announced = [s \in Sessions |-> "none"]
    /\ send_pass = NoPass

ManagerAtRest ==
    InitManager(throttle_batch_interval, throttle_max_batch_size, TRUE, TRUE)

\* performance_monitor.py lines 29-49, with the start-up callbacks registered
InitMonitorRing(callbacks, ring) ==
    /\ max_measurements = ring
    /\ monitor_tasks = <<>>
    /\ task_op = NoTaskOp
    /\ raised = {}
    /\ degradation_active = FALSE
    /\ severe_lag_count = 0
    /\ lag_measurements = <<>>
    /\ degradation_callbacks = callbacks
    /\ dispatched = <<>>
    /\ mon_op = [op |-> "init", lag_ms |-> 0]
    /\ severe_run = 0
    /\ run_emergencies = 0
    /\ last_sr = "none"

InitMonitorWith(callbacks) == InitMonitorRing(callbacks, MaxMeasurements)

MonitorAtRest == InitMonitorWith(<<"manager">>)

\* the broadcaster and the manager without the record of what was sent
bcQuiet == <<batch_interval, max_batch_size, pending_messages, flush_task,
             since_flush, message_count, rate_limit_active, has_broadcaster,
             enable_message_throttling, active_connections, next_msg,
             flush_count, burst, bc_op, since_trip, flightVars>>

\* an operation that sends nothing
NoSend == sent_now' = [s \in Sessions |-> <<>>]

othersOfStore == <<bcQuiet, monVars, returned, taskVars, announced, send_pass>>

InitStoreOnly == InitStore /\ ManagerAtRest /\ MonitorAtRest /\ NothingReturned

NextStore ==
    \/ \E s \in Sessions : add_subscriber(s) /\ NoSend /\ UNCHANGED othersOfStore
    \/ \E s \in Sessions : remove_subscriber(s) /\ NoSend /\ UNCHANGED othersOfStore
    \/ \E e \in EntryInputs, loop \in BOOLEAN :
          add_entry(e, loop) /\ NoSend /\ UNCHANGED othersOfStore
    \/ \E failed \in SUBSET Sessions :
          notify_subscribers_async(failed) /\ UNCHANGED othersOfStore
    \/ perform_cleanup /\ NoSend /\ UNCHANGED othersOfStore
    \/ StoreTick /\ NoSend /\ UNCHANGED othersOfStore

SpecStore == InitStoreOnly /\ [][NextStore]_vars

InitBroadcaster ==
    /\ StoreAtRest /\ MonitorAtRest /\ NothingReturned
    /\ \E interval \in BatchIntervalArgs :
          InitManager(interval, MaxBatchSizeArg, TRUE, TRUE)

\* what no operation of the manager or the broadcaster touches
managerFrame == <<storeRest, monVars, returned, taskVars, announced, send_pass>>

\* ... and the time since the trip, which only the breaker model follows
othersOfManager == <<managerFrame, since_trip, flightVars>>

NextBroadcaster ==
    \/ \E failed \in SUBSET Sessions :
          queue_message(failed) /\ UNCHANGED othersOfManager
    \/ \E failed \in SUBSET Sessions, suspends \in BOOLEAN, got \in SUBSET Sessions :
          timer_flush(failed, suspends, got) /\ UNCHANGED othersOfManager
    \/ \E failed \in SUBSET Sessions :
          flush_pending_messages(failed) /\ UNCHANGED othersOfManager
    \/ \E t \in Checkpoints : advance_time(t) /\ UNCHANGED othersOfManager
    \/ \E ws \in Sessions, history_ok \in BOOLEAN :
          connect(ws, history_ok) /\ UNCHANGED othersOfManager
    \/ \E ws \in Sessions : disconnect(ws) /\ UNCHANGED othersOfManager

SpecBroadcaster == InitBroadcaster /\ [][NextBroadcaster]_vars

\* queue_message keeps being called and the clock keeps being read
FairBroadcaster ==
    /\ SpecBroadcaster
    /\ WF_vars(\E failed \in SUBSET Sessions :
                  queue_message(failed) /\ UNCHANGED othersOfManager)
    /\ WF_vars(\E t \in Checkpoints :
                  advance_time(t) /\ UNCHANGED othersOfManager)

Levels == {"standard", "emergency", "recovery"}

InitDegrade ==
    /\ StoreAtRest /\ MonitorAtRest /\ NothingReturned
    /\ \E created \in BOOLEAN, enabled \in BOOLEAN :
          InitManager(throttle_batch_interval, throttle_max_batch_size, created, enabled)

NextDegrade ==
    \/ \E level \in Levels, lag_ms \in LagChoices, failed \in SUBSET Sessions :
          handle_performance_degradation(level, lag_ms, failed)
             /\ UNCHANGED othersOfManager
    \/ \E ws \in Sessions, history_ok \in BOOLEAN :
          connect(ws, history_ok) /\ UNCHANGED othersOfManager
    \/ \E ws \in Sessions : disconnect(ws) /\ UNCHANGED othersOfManager

SpecDegrade == InitDegrade /\ [][NextDegrade]_vars

othersOfMonitor == <<storeRest, returned, since_trip, flightVars, taskVars, announced, send_pass>>

InitMonitor ==
    /\ StoreAtRest /\ ManagerAtRest /\ NothingReturned
    /\ \E callbacks \in CallbackLists : InitMonitorWith(callbacks)

NextMonitor ==
    \/ \E lag_ms \in LagChoices : check_event_loop_lag(lag_ms) /\ UNCHANGED othersOfMonitor
    \/ \E lag_ms \in LagChoices : trigger_degradation(lag_ms) /\ UNCHANGED othersOfMonitor
    \/ \E lag_ms \in LagChoices :
          trigger_emergency_degradation(lag_ms) /\ UNCHANGED othersOfMonitor
    \/ recover_from_degradation /\ UNCHANGED othersOfMonitor

SpecMonitor == InitMonitor /\ [][NextMonitor]_vars

\* websocket_handlers.py lines 366-370 / 379-382: the performance_mode a
\* session is told in this step, "none" when it is sent no status update
ModeSent(s) ==
    IF sent_now'[s] # <<>> /\ sent_now'[s][1].type = "status_update"
    THEN sent_now'[s][1].status.performance_mode
    ELSE "none"

\* history: what each session connected after the step was told last
Announce ==
    announced' = [s \in Sessions |->
                    IF s \notin active_connections' THEN "none"
                    ELSE IF ModeSent(s) # "none" THEN ModeSent(s)
                    ELSE announced[s]]

\* the monitor's checks with the stream manager's handler registered at
\* start-up (websocket_handlers.py line 190) and sessions that come and go
InitAnnounce ==
    /\ StoreAtRest /\ ManagerAtRest /\ MonitorAtRest /\ NothingReturned

NextAnnounce ==
    \/ \E lag_ms \in LagChoices :
          /\ check_event_loop_lag(lag_ms)
          /\ Announce
          /\ UNCHANGED <<storeRest, returned, since_trip, flightVars, taskVars, send_pass>>
    \/ /\ connect("ws1", TRUE)
       /\ Announce
       /\ UNCHANGED <<storeRest, monVars, returned, taskVars, since_trip, flightVars, send_pass>>
    \/ /\ disconnect("ws1")
       /\ Announce
       /\ UNCHANGED <<storeRest, monVars, returned, taskVars, since_trip, flightVars, send_pass>>

SpecAnnounce == InitAnnounce /\ [][NextAnnounce]_vars

\* the n-th record of a producer whose records all differ (in the event) and
\* carry every field, flagged '_websocket_only' so that no subscriber is needed
NthEntry(n) == InEntry(ToString(n), IsoZ(0), "r", "info", TRUE)

\* enough different records to fill the dedup cache past its limit
DedupCalls == RecentHashesLimit + 1

\* a fresh store that is handed new records and repeats of the first and of
\* the latest accepted record
InitDedup == StoreAtRest /\ ManagerAtRest /\ MonitorAtRest /\ NothingReturned

DedupRepeats == {NthEntry(n) : n \in {1, Len(accepted)} \ {0}}

NextDedup ==
    \/ /\ Len(accepted) < DedupCalls
       /\ add_entry(NthEntry(Len(accepted) + 1), FALSE)
       /\ NoSend /\ UNCHANGED othersOfStore
    \/ \E e \in DedupRepeats :
          /\ Len(accepted) <= DedupCalls
          /\ add_entry(e, FALSE)
          /\ NoSend /\ UNCHANGED othersOfStore

SpecDedup == InitDedup /\ [][NextDedup]_vars

\* records flagged '_websocket_only' whose timestamps the producer left out,
\* wrote with the Z suffix, wrote without an offset, or garbled
RetentionInputs ==
    { InEntry("a", Absent,      Absent, Absent, TRUE),
      InEntry("z", IsoZ(1),     Absent, Absent, TRUE),
      InEntry("n", IsoNaive(1), Absent, Absent, TRUE),
      InEntry("x", "x",         Absent, Absent, TRUE) }

\* the store filled, cleaned and aged with no subscriber
InitRetention == StoreAtRest /\ ManagerAtRest /\ MonitorAtRest /\ NothingReturned

NextRetention ==
    \/ \E e \in RetentionInputs :
          add_entry(e, FALSE) /\ NoSend /\ UNCHANGED othersOfStore
    \/ perform_cleanup /\ NoSend /\ UNCHANGED othersOfStore
    \/ StoreTick /\ NoSend /\ UNCHANGED othersOfStore

SpecRetention == InitRetention /\ [][NextRetention]_vars

\* throttled messages, which can trip the breaker, next to the immediate
\* variants and the degradation handler
InitImmediate == StoreAtRest /\ ManagerAtRest /\ MonitorAtRest /\ NothingReturned

NextImmediate ==
    \/ connect("ws1", TRUE) /\ UNCHANGED othersOfManager
    \/ connect("ws2", TRUE) /\ UNCHANGED othersOfManager
    \/ queue_message({}) /\ UNCHANGED othersOfManager
    \/ \E t \in Checkpoints : advance_time(t) /\ UNCHANGED othersOfManager
    \/ \E failed \in SUBSET Sessions :
          broadcast_log_immediate(CleanEntry(InEntry("a", Absent, Absent, Absent, FALSE), 0),
                                  failed)
             /\ UNCHANGED othersOfManager
    \/ \E failed \in SUBSET Sessions :
          status_update_immediate([server_status |-> "running"], failed)
             /\ UNCHANGED othersOfManager
    \/ \E level \in Levels, failed \in SUBSET Sessions :
          handle_performance_degradation(level, severe_lag_threshold + 1, failed)
             /\ UNCHANGED othersOfManager

SpecImmediate == InitImmediate /\ [][NextImmediate]_vars

othersOfPass == <<storeRest, monVars, returned, taskVars, announced,
                  since_trip, flightVars>>

\* direct-send passes of the manager and of the broadcaster, one at a time,
\* while sessions connect and disconnect
InitPass == StoreAtRest /\ ManagerAtRest /\ MonitorAtRest /\ NothingReturned

NextPass ==
    \/ \E of \in {"manager", "flush"}, order \in Orders(active_connections) :
          begin_pass(of, order) /\ UNCHANGED othersOfPass
    \/ \E exc \in SendErrors \cup {"none"} :
          send_step(exc) /\ UNCHANGED othersOfPass
    \/ \E ws \in Sessions : connect(ws, TRUE) /\ UNCHANGED othersOfManager
    \/ \E ws \in Sessions : disconnect(ws) /\ UNCHANGED othersOfManager

SpecPass == InitPass /\ [][NextPass]_vars

\* the records logged while sessions are connected
StreamEntries ==
    { InEntry("a", Absent,  "1",    Absent,  FALSE),
      InEntry("b", IsoZ(0), Absent, "error", TRUE) }

\* the store and the manager together, throttling enabled
InitStream ==
    /\ StoreAtRest /\ MonitorAtRest /\ NothingReturned
    /\ InitManager(throttle_batch_interval, MaxBatchSizeArg, TRUE, TRUE)

NextStream ==
    \/ \E ws \in Sessions, history_ok \in BOOLEAN :
          connect(ws, history_ok) /\ UNCHANGED othersOfManager
    \/ \E ws \in Sessions : disconnect(ws) /\ UNCHANGED othersOfManager
    \/ \E e \in StreamEntries :
          add_entry(e, TRUE) /\ NoSend /\ UNCHANGED othersOfStore
    \/ \E failed \in SUBSET Sessions :
          notify_subscribers_async(failed) /\ UNCHANGED othersOfStore
    \/ \E e \in StreamEntries, failed \in SUBSET Sessions :
          broadcast_log_immediate(CleanEntry(e, store_now), failed)
             /\ UNCHANGED othersOfManager
    \/ \E failed \in SUBSET Sessions :
          queue_message(failed) /\ UNCHANGED othersOfManager
    \/ \E failed \in SUBSET Sessions :
          flush_pending_messages(failed) /\ UNCHANGED othersOfManager

SpecStream == InitStream /\ [][NextStream]_vars

\* a read-only call answers for the state it is made in: any other
\* operation leaves no answer behind
ForgetReturn == returned' = NoReturn

othersOfCapture == <<bcQuiet, monVars, taskVars, announced, send_pass>>

\* the limits get_recent_entries is asked for: none, fewer than, as many as
\* and more than the store can hold
Limits == 0..(MaxEntries + 1)

\* lines 425-431, called in the current state
call_get_recent_entries(limit) ==
    /\ returned' = Returns("get_recent_entries",
                           [limit |-> limit, result |-> get_recent_entries(limit)])
    /\ UNCHANGED <<storeVars, bcVars, monVars, taskVars, announced, send_pass>>

InitQuery == StoreAtRest /\ ManagerAtRest /\ MonitorAtRest /\ NothingReturned

NextQuery ==
    \/ \E s \in Sessions :
          add_subscriber(s) /\ NoSend /\ ForgetReturn /\ UNCHANGED othersOfCapture
    \/ \E e \in EntryInputs :
          add_entry(e, FALSE) /\ NoSend /\ ForgetReturn /\ UNCHANGED othersOfCapture
    \/ perform_cleanup /\ NoSend /\ ForgetReturn /\ UNCHANGED othersOfCapture
    \/ StoreTick /\ NoSend /\ ForgetReturn /\ UNCHANGED othersOfCapture
    \/ \E limit \in Limits : call_get_recent_entries(limit)

SpecQuery == InitQuery /\ [][NextQuery]_vars

\* history: the time since the trip after an operation of the broadcaster:
\* 0 at the trip, -1 once the breaker is no longer tripped, else advanced
\* by the time that passed
TripClock ==
    since_trip' =
       IF rate_limit_active' /\ ~rate_limit_active THEN 0
       ELSE IF ~rate_limit_active' THEN -1
       ELSE IF since_flush' > since_flush
       THEN Min(TimeSat, since_trip + (since_flush' - since_flush))
       ELSE since_trip

InitBreaker ==
    /\ StoreAtRest /\ MonitorAtRest /\ NothingReturned
    /\ InitManager(throttle_batch_interval, MaxBatchSizeArg, TRUE, TRUE)

NextBreaker ==
    \/ queue_message({}) /\ TripClock /\ UNCHANGED <<managerFrame, flightVars>>
    \/ \E t \in Checkpoints : advance_time(t) /\ TripClock /\ UNCHANGED <<managerFrame, flightVars>>
    \/ timer_flush({}, FALSE, {}) /\ TripClock /\ UNCHANGED <<managerFrame, flightVars>>
    \/ flush_pending_messages({}) /\ TripClock /\ UNCHANGED <<managerFrame, flightVars>>

SpecBreaker == InitBreaker /\ [][NextBreaker]_vars

\* tasks created per component in the model of the periodic tasks
MaxTasks == 2

\* the record logged while the tasks run
TaskEntry == CHOOSE d \in EventDicts : TRUE

InitTasks ==
    /\ InitStore /\ ManagerAtRest /\ MonitorAtRest /\ NothingReturned

NextTasks ==
    \/ \E loop \in BOOLEAN :
          /\ Len(monitor_tasks) < MaxTasks \/ Unfinished(monitor_tasks)
          /\ start_monitoring(loop)
          /\ UNCHANGED <<storeVars, bcVars, returned, announced, send_pass>>
    \/ stop_monitoring /\ UNCHANGED <<storeVars, bcVars, returned, announced, send_pass>>
    \/ \E i \in 1..MaxTasks, check_raises, suspends \in BOOLEAN :
          /\ periodic_check(i, check_raises, suspends)
          /\ UNCHANGED <<storeRest, returned, since_trip, flightVars, announced, send_pass>>
    \/ \E loop \in BOOLEAN :
          /\ ~destroyed
          /\ Len(cleanup_tasks) < MaxTasks \/ Unfinished(cleanup_tasks)
          /\ add_entry(CaptureEntry(TaskEntry), loop)
          /\ UNCHANGED <<bcVars, monVars, returned, monitor_tasks, destroyed, task_op, announced, send_pass>>
    \/ del_store /\ UNCHANGED <<bcVars, monVars, returned, announced, send_pass>>
    \/ \E i \in 1..MaxTasks, cleanup_raises \in BOOLEAN :
          /\ periodic_cleanup(i, cleanup_raises)
          /\ UNCHANGED <<bcVars, monVars, returned, announced, send_pass>>
    \/ connect("ws1", TRUE) /\ UNCHANGED <<managerFrame, since_trip, flightVars>>

SpecTasks == InitTasks /\ [][NextTasks]_vars

\* the monitor's task alone, the store at rest
InitMonitorTask ==
    /\ StoreAtRest /\ ManagerAtRest /\ MonitorAtRest /\ NothingReturned

NextMonitorTask ==
    \/ \E loop \in BOOLEAN :
          /\ Len(monitor_tasks) < MaxTasks \/ Unfinished(monitor_tasks)
          /\ start_monitoring(loop)
          /\ UNCHANGED <<storeVars, bcVars, returned, announced, send_pass>>
    \/ stop_monitoring /\ UNCHANGED <<storeVars, bcVars, returned, announced, send_pass>>
    \/ \E i \in 1..MaxTasks, check_raises, suspends \in BOOLEAN :
          /\ periodic_check(i, check_raises, suspends)
          /\ UNCHANGED <<storeRest, returned, since_trip, flightVars, announced, send_pass>>
    \/ connect("ws1", TRUE) /\ UNCHANGED <<managerFrame, since_trip, flightVars>>

SpecMonitorTask == InitMonitorTask /\ [][NextMonitorTask]_vars

\* the event loop runs every task that is ready: a sleep ends, a send a
\* task waits in completes, a requested cancellation is delivered
FairMonitorTask ==
    /\ SpecMonitorTask
    /\ \A i \in 1..MaxTasks :
          WF_vars(\E check_raises, suspends \in BOOLEAN :
                     /\ periodic_check(i, check_raises, suspends)
                     /\ UNCHANGED <<storeRest, returned, since_trip, flightVars, announced, send_pass>>)

(***************************************************************************)
(* flush_batch suspended in a send (websocket_handlers.py 77-133).  The    *)
(* envelope is built from a copy of the pending list before the send       *)
(* (lines 88-93) and the list is cleared after it (line 103), so what      *)
(* other tasks do while the send is suspended falls between the two.  A    *)
(* cancelled timer task is taken as finished at once: it does nothing more *)
(* (lines 71-73).                                                          *)
(***************************************************************************)

\* messages accepted per behaviour in the model of the suspended flush
FlightCalls == 3

\* flush_batch calls suspended at the same time
MaxInFlight == 2

\* max_batch_size in the model of the suspended flush
FlightBatchSize == 3

SeqWithout(s, k) == [j \in 1..(Len(s) - 1) |-> IF j < k THEN s[j] ELSE s[j + 1]]

\* history: the envelopes each accepted message went out in, after envelope
\* env was dispatched
Ledger(env) ==
    [m \in 1..(next_msg' - 1) |->
        (IF m <= Len(batched) THEN batched[m] ELSE 0)
        + (IF m \in Range(env) THEN 1 ELSE 0)]

\* history: the envelope an operation that runs flush_batch to completion
\* dispatched (lines 88-96), <<>> if it dispatched none
DispatchedNow ==
    IF flush_count' > flush_count
    THEN IF next_msg' > next_msg
         THEN Append(pending_messages, next_msg) ELSE pending_messages
    ELSE <<>>

\* what an operation that suspends nowhere leaves of the suspended flushes
\* and the other timers
NoFlight ==
    /\ batched' = Ledger(DispatchedNow)
    /\ UNCHANGED <<in_flight, orphan_timers>>

\* lines 77-96: flush_batch called from a task other than the timer, up to
\* the send it suspends in
begin_flush ==
    /\ has_broadcaster
    /\ pending_messages # <<>>
    /\ active_connections # {}
    /\ Len(in_flight) < MaxInFlight
    /\ flush_task' = IF TimerSleeping THEN DoneTask ELSE flush_task
    /\ in_flight' = Append(in_flight, [messages |-> pending_messages,
                                       sessions |-> active_connections])
    /\ bc_op' = "flush_suspended"
    /\ burst' = -1
    /\ sent_now' = NoSends
    /\ UNCHANGED <<batch_interval, max_batch_size, pending_messages, since_flush,
                   message_count, rate_limit_active, has_broadcaster,
                   enable_message_throttling, active_connections, subscribers,
                   next_msg, flush_count, since_trip, orphan_timers, batched>>

\* lines 96-109: the send of suspended flush k completes (the sessions in
\* `failed` raised), the pending list is cleared and flush_task set to
\* None, whatever they hold by now
finish_flush(k, failed) ==
    /\ k \in DOMAIN in_flight
    /\ failed \subseteq in_flight[k].sessions \cap active_connections
    /\ sent_now' = [s \in Sessions |->
                      IF s \in in_flight[k].sessions \ failed
                      THEN <<BatchUpdate(in_flight[k].messages)>> ELSE <<>>]
    /\ DisconnectAll(failed)
    /\ pending_messages' = <<>>
    /\ since_flush' = 0
    /\ flush_task' = NoTask
    /\ orphan_timers' = IF TimerSleeping
                        THEN Append(orphan_timers, flush_task.left)
                        ELSE orphan_timers
    /\ flush_count' = flush_count + 1
    /\ in_flight' = SeqWithout(in_flight, k)
    /\ bc_op' = "flush_resumed"
    /\ burst' = -1
    /\ UNCHANGED <<batch_interval, max_batch_size, message_count, rate_limit_active,
                   has_broadcaster, enable_message_throttling, next_msg, since_trip>>
    /\ batched' = Ledger(in_flight[k].messages)

\* lines 66-75 and 77-109: a timer task flush_task no longer refers to wakes
\* and runs flush_batch to completion
orphan_flush(k, failed) ==
    /\ k \in DOMAIN orphan_timers
    /\ orphan_timers[k] = 0
    /\ orphan_timers' = SeqWithout(orphan_timers, k)
    /\ burst' = -1
    /\ bc_op' = "orphan_flush"
    /\ UNCHANGED <<batch_interval, max_batch_size, message_count, rate_limit_active,
                   has_broadcaster, enable_message_throttling, next_msg, since_trip,
                   in_flight>>
    /\ IF pending_messages = <<>>
       THEN /\ failed = {}
            /\ sent_now' = NoSends
            /\ UNCHANGED <<pending_messages, flush_task, since_flush,
                           active_connections, subscribers, flush_count>>
       ELSE FlushEffect(pending_messages, failed)
    /\ batched' = Ledger(DispatchedNow)

\* the clock moves on for every sleeping timer
advance_timers(t) ==
    /\ advance_time(t)
    /\ orphan_timers' = [k \in DOMAIN orphan_timers |->
                            Max(0, orphan_timers[k] - (t - since_flush))]
    /\ UNCHANGED <<in_flight, batched, since_trip>>

InitFlight ==
    /\ StoreAtRest /\ MonitorAtRest /\ NothingReturned
    /\ InitManager(throttle_batch_interval, FlightBatchSize, TRUE, TRUE)

NextFlight ==
    \/ /\ next_msg <= FlightCalls
       /\ Enqueue(next_msg, {})
       /\ NoFlight
       /\ UNCHANGED <<managerFrame, since_trip>>
    \/ begin_flush /\ UNCHANGED managerFrame
    \/ \E k \in 1..MaxInFlight :
          finish_flush(k, {}) /\ UNCHANGED managerFrame
    \/ timer_flush({}, FALSE, {}) /\ NoFlight /\ UNCHANGED <<managerFrame, since_trip>>
    \/ \E k \in 1..FlightCalls :
          orphan_flush(k, {}) /\ UNCHANGED managerFrame
    \/ advance_timers(throttle_batch_interval) /\ UNCHANGED managerFrame
    \/ connect("ws1", TRUE) /\ UNCHANGED <<managerFrame, since_trip, flightVars>>

SpecFlight == InitFlight /\ [][NextFlight]_vars

\* accepted queue_message calls per behaviour in the model of the pending
\* list: more than the batch size an emergency event sets
PendingCalls == 52

\* timer and manual flushes per behaviour in that model
MaxFlushes == 1

\* the broadcaster under the default configuration (0.5 s, 100) with the
\* degradation handler registered
InitPending ==
    /\ StoreAtRest /\ MonitorAtRest /\ NothingReturned
    /\ InitManager(throttle_batch_interval, throttle_max_batch_size, TRUE, TRUE)

NextPending ==
    \/ \E failed \in SUBSET Sessions :
          /\ next_msg <= PendingCalls
          /\ Enqueue(next_msg, failed)
          /\ UNCHANGED othersOfManager
    \/ \E failed \in SUBSET Sessions :
          /\ flush_count < MaxFlushes
          /\ timer_flush(failed, FALSE, {})
          /\ UNCHANGED othersOfManager
    \/ \E failed \in SUBSET Sessions :
          /\ flush_count < MaxFlushes
          /\ flush_pending_messages(failed)
          /\ UNCHANGED othersOfManager
    \/ advance_time(throttle_batch_interval) /\ UNCHANGED othersOfManager
    \/ handle_performance_degradation("emergency", severe_lag_threshold + 1, {})
          /\ UNCHANGED othersOfManager
    \/ connect("ws1", TRUE) /\ UNCHANGED othersOfManager

SpecPending == InitPending /\ [][NextPending]_vars

\* config.py line 53: values of throttle_batch_interval the validation
\* accepts (0.1 s <= value <= 5.0 s), in ticks: 0.125 s, 0.5 s, 1 s, 2 s,
\* 3 s, 5 s
ValidBatchIntervals ==
    {TicksPerSec \div 8, TicksPerSec \div 2, TicksPerSec, 2 * TicksPerSec,
     3 * TicksPerSec, 5 * TicksPerSec}

\* config.py line 54: values of throttle_max_batch_size the validation
\* accepts (10 <= value <= 500)
ValidBatchSizes == {10, 50, 100, 500}

\* websocket_handlers.py lines 28-43 and 172-186 under each such
\* configuration
InitConfigured ==
    /\ StoreAtRest /\ MonitorAtRest /\ NothingReturned
    /\ \E interval \in ValidBatchIntervals, size \in ValidBatchSizes :
          InitManager(interval, size, TRUE, TRUE)

\* the events that shed load
LoadLevels == {"standard", "emergency"}

NextConfigured ==
    \/ \E level \in LoadLevels, lag_ms \in LagChoices, failed \in SUBSET Sessions :
          handle_performance_degradation(level, lag_ms, failed)
             /\ UNCHANGED othersOfManager
    \/ \E ws \in Sessions : connect(ws, TRUE) /\ UNCHANGED othersOfManager
    \/ \E ws \in Sessions : disconnect(ws) /\ UNCHANGED othersOfManager

SpecConfigured == InitConfigured /\ [][NextConfigured]_vars

\* main.py lines 216-220: the status a client asks for
Statuses == {[server_status |-> "running"]}

\* websocket_handlers.py lines 172-186: a broadcaster exists exactly when
\* settings.enable_message_throttling is set
InitRouting ==
    /\ StoreAtRest /\ MonitorAtRest /\ NothingReturned
    /\ \E throttling \in BOOLEAN :
          InitManager(throttle_batch_interval, MaxBatchSizeArg, throttling, throttling)

NextRouting ==
    \/ \E ws \in Sessions : connect(ws, TRUE) /\ UNCHANGED othersOfManager
    \/ \E ws \in Sessions : disconnect(ws) /\ UNCHANGED othersOfManager
    \/ \E e \in StreamEntries, failed \in SUBSET Sessions :
          broadcast_log(CleanEntry(e, store_now), failed) /\ UNCHANGED othersOfManager
    \/ \E status \in Statuses, failed \in SUBSET Sessions :
          send_status_update(status, failed) /\ UNCHANGED othersOfManager
    \/ \E t \in Checkpoints : advance_time(t) /\ UNCHANGED othersOfManager

SpecRouting == InitRouting /\ [][NextRouting]_vars

InitCapture == StoreAtRest /\ ManagerAtRest /\ MonitorAtRest /\ NothingReturned

NextCapture ==
    \/ \E s \in Sessions :
          add_subscriber(s) /\ NoSend /\ ForgetReturn /\ UNCHANGED othersOfCapture
    \/ \E s \in Sessions :
          remove_subscriber(s) /\ NoSend /\ ForgetReturn /\ UNCHANGED othersOfCapture
    \/ \E d \in EventDicts, enabled \in BOOLEAN, loop \in BOOLEAN, raises \in BOOLEAN :
          capture_logs_processor(d, enabled, loop, raises)
             /\ NoSend /\ UNCHANGED othersOfCapture
    \/ \E failed \in SUBSET Sessions :
          notify_subscribers_async(failed) /\ ForgetReturn /\ UNCHANGED othersOfCapture
    \/ StoreTick /\ NoSend /\ ForgetReturn /\ UNCHANGED othersOfCapture

SpecCapture == InitCapture /\ [][NextCapture]_vars

\* length of the measurement ring in the health model (100 in the source):
\* longer than the window is_healthy averages over
HealthRing == 6

\* the lags of the health model: none, over the threshold, severe
HealthLags == {0, max_lag_ms + 1, severe_lag_threshold + 1}

\* lines 245-257, called in the current state
call_is_healthy ==
    /\ returned' = Returns("is_healthy", [result |-> is_healthy])
    /\ UNCHANGED <<storeVars, bcVars, monVars, taskVars, announced, send_pass>>

InitHealth ==
    /\ StoreAtRest /\ ManagerAtRest /\ NothingReturned
    /\ InitMonitorRing(<<"manager">>, HealthRing)

NextHealth ==
    \/ \E lag_ms \in HealthLags :
          check_event_loop_lag(lag_ms) /\ ForgetReturn
          /\ UNCHANGED <<storeRest, since_trip, flightVars, taskVars, announced, send_pass>>
    \/ recover_from_degradation /\ ForgetReturn
          /\ UNCHANGED <<storeRest, since_trip, flightVars, taskVars, announced, send_pass>>
    \/ call_is_healthy

SpecHealth == InitHealth /\ [][NextHealth]_vars

\* the lags measured while the status endpoint is polled: none, and one over
\* the threshold
StatusLags == {0, max_lag_ms + 1}

\* websocket_handlers.py lines 172-191: the manager constructed under each
\* combination of settings.enable_message_throttling (a broadcaster exists
\* exactly when it is set) and settings.enable_performance_monitoring (the
\* handler is registered exactly when it is set)
InitStatus ==
    /\ StoreAtRest /\ NothingReturned
    /\ \E throttling \in BOOLEAN :
          InitManager(throttle_batch_interval, MaxBatchSizeArg, throttling, throttling)
    /\ \E monitoring \in BOOLEAN :
          InitMonitorWith(IF monitoring THEN <<"manager">> ELSE <<>>)

NextStatus ==
    \/ queue_message({}) /\ UNCHANGED othersOfManager
    \/ \E t \in Checkpoints : advance_time(t) /\ UNCHANGED othersOfManager
    \/ \E lag_ms \in StatusLags :
          check_event_loop_lag(lag_ms) /\ UNCHANGED othersOfMonitor
    \/ get_performance_integrated_stats

SpecStatus == InitStatus /\ [][NextStatus]_vars

(***************************************************************************)
(* Properties of the store.                                                *)
(***************************************************************************)

\* a retained record whose timestamp parses (offset-aware) and is not older
\* than now - max_age_seconds
WithinAge(r) ==
    LET p == FromIsoFormat(ReplaceZ(r.timestamp))
    IN  p.kind = "aware" /\ p.t >= store_now - MaxAgeSeconds

\* C1: the store never holds more than max_entries records, and as long as no
\* cleanup pass has removed a record the retained records (and what
\* get_recent_entries returns for a limit above max_entries) are exactly the
\* max_entries most recently accepted ones, in insertion order.
C1_BoundedMostRecent ==
    /\ Len(entries) <= MaxEntries
    /\ cleaned = 0 =>
         /\ entries = LastN(accepted, MaxEntries)
         /\ get_recent_entries(MaxEntries + 8) = LastN(accepted, MaxEntries)

\* C1 witness: more than max_entries records were accepted with a subscriber
\* present, no cleanup removed any, and the oldest accepted one is gone.
C1_Witness ==
    /\ Len(accepted) > MaxEntries
    /\ cleaned = 0
    /\ HasSubscribers
    /\ Len(entries) = MaxEntries
    /\ accepted[1] \notin Range(entries)

\* C2: an add_entry call for a record without the _websocket_only flag, made
\* while there is no subscriber, changes neither the retained entries nor the
\* dedup cache and schedules no notification.
C2_SuppressedIsNoOp ==
    [][\A e \in EntryInputs, loop \in BOOLEAN :
         (add_entry(e, loop) /\ ~e.ws_only /\ Len(subscribers) = 0)
            => UNCHANGED <<entries, recent_hashes, notify_tasks>>]_storeVars

\* C2 witness: a call was suppressed while the store already held a record.
C2_Witness ==
    /\ last_op = "suppressed"
    /\ Len(subscribers) = 0
    /\ entries # <<>>

\* C3: with a subscriber present or the flag set, a record whose tuple equals
\* that of a record accepted since the last prune leaves the retained entries
\* and the scheduled notifications unchanged, and a record whose tuple differs
\* from every tuple accepted before is retained (appended as the newest).
C3_DedupByTuple ==
    [][\A e \in EntryInputs, loop \in BOOLEAN :
         (add_entry(e, loop) /\ (HasSubscribers \/ e.ws_only)) =>
            /\ TupleOf(e) \in window_tuples
                 => UNCHANGED <<entries, notify_tasks>>
            /\ TupleOf(e) \notin seen_tuples
                 => /\ entries' # <<>>
                    /\ entries'[Len(entries')] = CleanEntry(e, store_now)
                    /\ accepted' = Append(accepted, CleanEntry(e, store_now))
      ]_storeVars

\* C4 (as claimed): right after a cleanup pass every retained record is within
\* the age window.
C4_AllWithinAgeAfterCleanup ==
    last_op = "cleanup" => \A i \in 1..Len(entries) : WithinAge(entries[i])

\* C4 (amended): right after a cleanup pass the store is empty or its oldest
\* retained record is within the age window.
C4_OldestWithinAgeAfterCleanup ==
    last_op = "cleanup" => (entries = <<>> \/ WithinAge(entries[1]))

\* C4 witness: a pass has removed a record and kept another.
C4_Witness ==
    /\ last_op = "cleanup"
    /\ cleaned > 0
    /\ entries # <<>>

(***************************************************************************)
(* Properties of the broadcaster.                                          *)
(***************************************************************************)

QueueCall == bc_op \in {"dropped", "queued", "size_flush"}

\* C5: on a freshly constructed broadcaster, max_batch_size queue_message
\* calls made one after the other before batch_interval has elapsed cause
\* exactly one flush: the pending list is empty after the last call and every
\* live session has received one batch_update envelope with all the messages
\* in submission order and batch_size = max_batch_size.
C5_BurstFlushesOnce ==
    (burst = max_batch_size /\ QueueCall) =>
        /\ pending_messages = <<>>
        /\ flush_count = 1
        /\ \A s \in active_connections :
              sent_now[s] = <<BatchUpdate([i \in 1..max_batch_size |-> i])>>

\* what a dropped call leaves behind
DroppedStep ==
    /\ rate_limit_active'
    /\ get_stats'.circuit_breaker_active
    /\ pending_messages' = pending_messages
    /\ message_count' = message_count
    /\ flush_task' = flush_task
    /\ sent_now' = NoSends

\* C6: a queue_message call made while the breaker is not tripped and
\* message_count / min(now - last_flush_time, window) exceeds the threshold
\* trips the breaker: the message is dropped, the pending list and
\* message_count are unchanged, no timer is started and get_stats reports the
\* breaker active; a call made while the breaker is tripped and stays tripped
\* is dropped in the same way.
C6_TripDropsMessage ==
    [][\A failed \in SUBSET Sessions : queue_message(failed) =>
          /\ ( /\ ~rate_limit_active
               /\ since_flush > 0
               /\ message_count * TicksPerSec >
                    circuit_breaker_threshold
                        * Min(since_flush, circuit_breaker_window) )
                => DroppedStep
          /\ ( rate_limit_active /\ since_flush <= circuit_breaker_recovery_time )
                => DroppedStep
      ]_vars

\* C6 witness: a call was dropped while a message was pending and its timer
\* was asleep.
C6_Witness ==
    /\ bc_op = "dropped"
    /\ rate_limit_active
    /\ pending_messages # <<>>
    /\ TimerSleeping

\* C7: a queue_message call made while the breaker is tripped and
\* now - last_flush_time > recovery_time untrips it, restarts message_count
\* from 0 (so that it is 1 once the call's message is counted) and accepts the
\* message (into the pending list, or into the batch it completes); and with
\* queue_message called again and again a tripped breaker eventually untrips.
C7_RecoveryUntrips ==
    /\ [][\A failed \in SUBSET Sessions :
            ( /\ queue_message(failed)
              /\ rate_limit_active
              /\ since_flush > circuit_breaker_recovery_time ) =>
               /\ ~rate_limit_active'
               /\ message_count' = 1
               /\ LET p == Append(pending_messages, next_msg)
                  IN  IF Len(p) >= max_batch_size
                      THEN /\ pending_messages' = <<>>
                           /\ flush_count' = flush_count + 1
                           /\ \A s \in active_connections' :
                                 sent_now'[s] = <<BatchUpdate(p)>>
                      ELSE pending_messages' = p
         ]_vars
    /\ (rate_limit_active ~> ~rate_limit_active)

\* C7 witness: the breaker has recovered: several messages were accepted in
\* all, the count restarted and stands at 1 after the accepted call.
C7_Witness ==
    /\ QueueCall /\ bc_op # "dropped"
    /\ ~rate_limit_active
    /\ message_count = 1
    /\ next_msg > 2

(***************************************************************************)
(* Properties of the monitor.                                              *)
(***************************************************************************)

HasLevel(invocations, level) ==
    \E i \in 1..Len(invocations) : invocations[i][2] = level

\* C8: "standard" and "recovery" reach the callbacks strictly alternating,
\* starting with "standard".  A check with max_lag_ms < lag <= severe
\* threshold that finds degradation inactive invokes every callback once with
\* ("standard", lag) and activates it; while active it invokes nothing.  A
\* check with lag < max_lag_ms / 2 that finds it active invokes every callback
\* once with ("recovery", 0) and clears it.  A check with
\* max_lag_ms / 2 <= lag <= max_lag_ms invokes nothing and leaves it as it is.
C8_StandardRecoveryAlternate ==
    [][ /\ HasLevel(dispatched', "standard") => last_sr # "standard"
        /\ HasLevel(dispatched', "recovery") => last_sr = "standard"
        /\ \A lag_ms \in LagChoices : check_event_loop_lag(lag_ms) =>
             /\ ( /\ max_lag_ms < lag_ms /\ lag_ms <= severe_lag_threshold
                  /\ ~degradation_active )
                  => /\ dispatched' = Invocations("standard", lag_ms)
                     /\ degradation_active'
             /\ ( /\ max_lag_ms < lag_ms /\ lag_ms <= severe_lag_threshold
                  /\ degradation_active )
                  => /\ dispatched' = <<>>
                     /\ degradation_active'
             /\ ( 2 * lag_ms < max_lag_ms /\ degradation_active )
                  => /\ dispatched' = Invocations("recovery", 0)
                     /\ ~degradation_active'
             /\ ( 2 * lag_ms >= max_lag_ms /\ lag_ms <= max_lag_ms )
                  => /\ dispatched' = <<>>
                     /\ degradation_active' = degradation_active
      ]_vars

\* C8 witness: a check has just delivered the recovery that follows a
\* standard event, to two callbacks.
C8_Witness ==
    /\ mon_op.op = "check"
    /\ last_sr = "recovery"
    /\ Len(degradation_callbacks) = 2
    /\ dispatched = Invocations("recovery", 0)

\* C9: of max_severe_lag_count consecutive checks with lag > severe threshold
\* that begin with severe_lag_count = 0, only the last dispatches an
\* "emergency" event: every callback is invoked once with that check's lag and
\* severe_lag_count is 0 afterwards.  The emergency path invoked directly
\* does the same.
C9_EmergencyOncePerRun ==
    /\ severe_run \in 1..(max_severe_lag_count - 1) =>
          /\ run_emergencies = 0
          /\ ~HasLevel(dispatched, "emergency")
    /\ severe_run = max_severe_lag_count =>
          /\ run_emergencies = 1
          /\ dispatched = Invocations("emergency", mon_op.lag_ms)
          /\ severe_lag_count = 0
    /\ mon_op.op = "trigger_emergency_degradation" =>
          /\ dispatched = Invocations("emergency", mon_op.lag_ms)
          /\ severe_lag_count = 0

\* C9 witness: a run of max_severe_lag_count severe checks has ended with a
\* lag of 200 ms, two callbacks registered.
C9_Witness ==
    /\ severe_run = max_severe_lag_count
    /\ mon_op = [op |-> "check", lag_ms |-> 200]
    /\ Len(degradation_callbacks) = 2

\* the broadcaster still carries what an "emergency" event set and no
\* "recovery" event has undone
EmergencyPinned ==
    /\ "manager" \in Range(degradation_callbacks)
    /\ max_batch_size = EmergencyMaxBatchSize
    /\ batch_interval = DegradedBatchInterval

NormalStatus ==
    [type |-> "status_update",
     status |-> [performance_mode |-> "normal", reason |-> "system_load_recovered"]]

\* C11: once an "emergency" event has pinned the broadcaster to 2.0 s / 50, the
\* next check that measures lag < max_lag_ms / 2 dispatches "recovery": the
\* broadcaster is back at the configured defaults and every session has the
\* "normal" status update, whether or not "standard" came before.
C11_RecoveryAfterEmergency ==
    [][\A lag_ms \in LagChoices :
         ( /\ check_event_loop_lag(lag_ms)
           /\ 2 * lag_ms < max_lag_ms
           /\ EmergencyPinned ) =>
            /\ dispatched' = Invocations("recovery", 0)
            /\ batch_interval' = throttle_batch_interval
            /\ max_batch_size' = throttle_max_batch_size
            /\ \A s \in active_connections' : sent_now'[s] = <<NormalStatus>>
      ]_vars

(***************************************************************************)
(* Properties of the stream manager's degradation handler.                 *)
(***************************************************************************)

\* C10: with throttling enabled "standard" sets batch_interval to
\* min(2.0 s, 1.5 x its previous value) and keeps max_batch_size, "emergency"
\* sets batch_interval = 2.0 s and max_batch_size = 50, "recovery" sets both
\* to the configured defaults; with throttling disabled the handler changes
\* neither and sends nothing.
C10_HandlerMapping ==
    [][\A level \in Levels, lag_ms \in LagChoices, failed \in SUBSET Sessions :
         handle_performance_degradation(level, lag_ms, failed) =>
            IF has_broadcaster /\ enable_message_throttling
            THEN /\ level = "standard" =>
                      /\ 2 * batch_interval' =
                            Min(2 * (2 * TicksPerSec), 3 * batch_interval)
                      /\ max_batch_size' = max_batch_size
                 /\ level = "emergency" =>
                      /\ batch_interval' = 2 * TicksPerSec
                      /\ max_batch_size' = 50
                 /\ level = "recovery" =>
                      /\ batch_interval' = throttle_batch_interval
                      /\ max_batch_size' = throttle_max_batch_size
            ELSE /\ batch_interval' = batch_interval
                 /\ max_batch_size' = max_batch_size
                 /\ sent_now' = NoSends
                 /\ active_connections' = active_connections
      ]_vars

\* C10 witness: a "standard" event has lengthened an interval that an earlier
\* one had already lengthened, and the cap is not reached yet.
C10_Witness ==
    /\ bc_op = "standard"
    /\ has_broadcaster /\ enable_message_throttling
    /\ 2 * batch_interval > 3 * throttle_batch_interval
    /\ batch_interval < DegradedBatchInterval

(***************************************************************************)
(* Properties of the integrated statistics.                                *)
(***************************************************************************)

\* the breaker as the status endpoint should see it: not tripped while
\* throttling is disabled
BreakerTripped == has_broadcaster /\ enable_message_throttling /\ rate_limit_active

\* C12: under every combination of the enable flags
\* get_performance_integrated_stats returns normally, with integrated_health
\* = is_healthy() and not circuit-breaker-tripped (the breaker counting as not
\* tripped when throttling is disabled); it never raises.
C12_StatsNeverRaise ==
    [][get_performance_integrated_stats =>
          /\ returned'.raised = "none"
          /\ returned'.value.integrated_health = (is_healthy /\ ~BreakerTripped)
      ]_vars

(***************************************************************************)
(* Properties of is_healthy.                                               *)
(***************************************************************************)

\* the measurements is_healthy is to average: the last min(5, count)
LastFew ==
    LET count == Len(lag_measurements)
        n == Min(5, count)
    IN  [i \in 1..n |-> lag_measurements[count - n + i]]

\* C13: is_healthy() returns true exactly when there are no measurements
\* yet, or when the average lag of the last min(5, count) measurements is
\* <= max_lag_ms and degradation_active is false and severe_lag_count is 0.
C13_HealthyExactly ==
    returned.call = "is_healthy" =>
       returned.value.result =
          ( \/ Len(lag_measurements) = 0
            \/ /\ Sum(LastFew) <= max_lag_ms * Len(LastFew)
               /\ ~degradation_active
               /\ severe_lag_count = 0 )

\* C13 witness: is_healthy() has answered true although the average over
\* every measurement kept, which includes one older than the last five,
\* exceeds max_lag_ms.
C13_Witness ==
    /\ returned.call = "is_healthy"
    /\ returned.value.result
    /\ Len(lag_measurements) > 5
    /\ Sum(lag_measurements) > max_lag_ms * Len(lag_measurements)

(***************************************************************************)
(* Properties of the callback dispatch.                                    *)
(***************************************************************************)

C15_TimerFlushCompletes ==
    [][\A failed \in SUBSET Sessions, suspends \in BOOLEAN, got \in SUBSET Sessions :
         ( /\ timer_flush(failed, suspends, got)
           /\ pending_messages # <<>> ) =>
            /\ pending_messages' = <<>>
            /\ \A s \in active_connections' :
                  sent_now'[s] = <<BatchUpdate(pending_messages)>>
      ]_vars

(***************************************************************************)
(* Properties of the path from the store to the sessions.                  *)
(***************************************************************************)

\* C16: with message throttling enabled a record the store accepts reaches
\* the sessions only through the throttled broadcaster: no session is sent
\* an individual log_entry message by the store's own notification, and the
\* record counts towards the circuit-breaker rate.
C16_LogsOnlyThroughBroadcaster ==
    [][\A failed \in SUBSET Sessions :
         ( /\ notify_subscribers_async(failed)
           /\ has_broadcaster /\ enable_message_throttling ) =>
            /\ \A s \in Sessions :
                  \A i \in 1..Len(sent_now'[s]) : sent_now'[s][i].type # "log_entry"
            /\ message_count' = message_count + 1 \/ rate_limit_active'
      ]_vars

(***************************************************************************)
(* Properties of capture_logs_processor.                                   *)
(***************************************************************************)

\* C17: capture_logs_processor returns the event record with exactly the
\* keys and values it was given, whether or not subscribers exist, whether
\* the store retains, deduplicates or suppresses the record, and whether or
\* not add_entry raises; stamps and stripped keys are on the store's copy.
C17_SinkRecordUntouched ==
    [][\A d \in EventDicts, enabled \in BOOLEAN, loop \in BOOLEAN, raises \in BOOLEAN :
         capture_logs_processor(d, enabled, loop, raises) =>
            returned'.value.result = d
      ]_vars

\* C17 witness: the store has stamped a timestamp and a level on the copy
\* it retained, and the record returned to the sink has neither.
C17_Witness ==
    /\ returned.call = "capture_logs_processor"
    /\ last_op = "stored"
    /\ returned.value.result.timestamp = Absent
    /\ returned.value.result.level = Absent
    /\ entries # <<>>
    /\ entries[Len(entries)].event = returned.value.result.event
    /\ entries[Len(entries)].timestamp # Absent
    /\ entries[Len(entries)].level = "info"

(***************************************************************************)
(* Properties of get_recent_entries.                                       *)
(***************************************************************************)

\* C18: for every store content and every limit >= 0,
\* get_recent_entries(limit) returns exactly min(limit, size) records, the
\* most recently retained ones in insertion order: all of them when fewer
\* than limit exist, none when limit is 0.
C18_RecentEntriesExactlyMin ==
    returned.call = "get_recent_entries" =>
       LET n == Min(returned.value.limit, Len(entries))
       IN  returned.value.result =
              [i \in 1..n |-> entries[Len(entries) - n + i]]

(***************************************************************************)
(* Properties of the session lifecycle.                                    *)
(***************************************************************************)

\* the sessions are neither registered with the manager nor subscribed to
\* the store after the step
Removed(sessions) ==
    /\ sessions \cap active_connections' = {}
    /\ sessions \cap Range(subscribers') = {}

\* C19: a session is removed from the manager's registry and unsubscribed
\* from the store upon its first failed send, on every send path: the
\* history push inside connect, the store's notification fan-out, the
\* manager's direct broadcast and the broadcaster's batch flush.
C19_FailedSendRemovesSession ==
    [][ /\ \A ws \in Sessions :
              ( /\ connect(ws, FALSE)
                /\ get_recent_entries(HistoryLimit) # <<>> ) => Removed({ws})
        /\ \A failed \in SUBSET Sessions :
              notify_subscribers_async(failed) => Removed(failed)
        /\ \A failed \in SUBSET Sessions, e \in StreamEntries :
              broadcast_log_immediate(CleanEntry(e, store_now), failed) =>
                 Removed(failed)
        /\ \A failed \in SUBSET Sessions :
              (queue_message(failed) \/ flush_pending_messages(failed)) =>
                 Removed(failed)
      ]_vars

(***************************************************************************)
(* Properties of broadcast_log and send_status_update.                     *)
(***************************************************************************)

\* what the claim asks of one routed message
Routed(message) ==
    IF active_connections = {}
    THEN /\ pending_messages' = pending_messages
         /\ message_count' = message_count
         /\ sent_now' = NoSends
    ELSE IF has_broadcaster /\ enable_message_throttling
    THEN /\ \A s \in Sessions :
               \A i \in 1..Len(sent_now'[s]) : sent_now'[s][i].type = "batch_update"
         /\ \/ bc_op' = "dropped" /\ pending_messages' = pending_messages
            \/ bc_op' = "queued" /\ pending_messages' = Append(pending_messages, message)
            \/ /\ bc_op' = "size_flush"
               /\ pending_messages' = <<>>
               /\ \A s \in active_connections' :
                     sent_now'[s] = <<BatchUpdate(Append(pending_messages, message))>>
    ELSE /\ \A s \in active_connections' : sent_now'[s] = <<message>>
         /\ pending_messages' = pending_messages
         /\ message_count' = message_count

\* C20: broadcast_log and send_status_update do nothing without active
\* connections (nothing queued, counted or sent); otherwise with throttling
\* enabled they hand exactly one message of type log_entry / status_update to
\* the broadcaster's queue_message and send nothing directly, and with
\* throttling disabled they send it directly to every live session and
\* queue nothing.
C20_RoutedOnce ==
    [][\A failed \in SUBSET Sessions :
         /\ \A e \in StreamEntries :
               broadcast_log(CleanEntry(e, store_now), failed) =>
                  Routed([type |-> "log_entry", log |-> CleanEntry(e, store_now)])
         /\ \A status \in Statuses :
               send_status_update(status, failed) =>
                  Routed([type |-> "status_update", status |-> status])
      ]_vars

\* C20 witness: with a session connected and throttling enabled a status
\* update has been handed to the broadcaster and waits in the pending list,
\* nothing having been sent.
C20_Witness ==
    /\ bc_op = "queued"
    /\ active_connections # {}
    /\ pending_messages # <<>>
    /\ pending_messages[Len(pending_messages)].type = "status_update"
    /\ sent_now = NoSends

(***************************************************************************)
(* Properties of the severe-lag counter.                                   *)
(***************************************************************************)

\* C30: after every completed lag check 0 <= severe_lag_count <
\* max_severe_lag_count: a check with lag_ms > severe_lag_threshold adds 1
\* (and resets the counter to 0 when it reaches max_severe_lag_count), a
\* check with lag_ms <= max_lag_ms subtracts 1, floored at 0, and a check in
\* between leaves it unchanged.
C30_SevereCountStepsAndBounds ==
    [][\A lag_ms \in LagChoices :
         check_event_loop_lag(lag_ms) =>
            /\ severe_lag_count' \in 0..(max_severe_lag_count - 1)
            /\ lag_ms > severe_lag_threshold =>
                  severe_lag_count' =
                     IF severe_lag_count + 1 = max_severe_lag_count
                     THEN 0 ELSE severe_lag_count + 1
            /\ lag_ms <= max_lag_ms =>
                  severe_lag_count' =
                     IF severe_lag_count = 0 THEN 0 ELSE severe_lag_count - 1
            /\ (lag_ms > max_lag_ms /\ lag_ms <= severe_lag_threshold) =>
                  severe_lag_count' = severe_lag_count
      ]_vars

\* C30 witness: a clean check has stepped a counter of at least 2 down by
\* one, leaving it above 0.
C30_Witness ==
    /\ mon_op.op = "check"
    /\ mon_op.lag_ms <= max_lag_ms
    /\ severe_lag_count > 0
    /\ severe_run = 0

(***************************************************************************)
(* Properties of degradation under every valid configuration.              *)
(***************************************************************************)

\* C27: under every valid configuration a "standard" or an "emergency"
\* event only sheds load: it never decreases batch_interval and never
\* increases max_batch_size relative to their values just before the event.
C27_DegradationOnlySheds ==
    [][\A level \in LoadLevels, lag_ms \in LagChoices, failed \in SUBSET Sessions :
         handle_performance_degradation(level, lag_ms, failed) =>
            /\ batch_interval' >= batch_interval
            /\ max_batch_size' <= max_batch_size
      ]_vars

(***************************************************************************)
(* Properties of the pending list.                                         *)
(***************************************************************************)

\* C26: in every reachable state, after any sequence of queue_message,
\* flush_batch, timer flushes and degradation events, the number of pending
\* messages never exceeds the current max_batch_size and no envelope just
\* dispatched has a batch_size greater than max_batch_size.
C26_PendingWithinBatchSize ==
    /\ Len(pending_messages) <= max_batch_size
    /\ \A s \in Sessions :
          \A i \in 1..Len(sent_now[s]) :
             sent_now[s][i].type = "batch_update" =>
                sent_now[s][i].batch_size <= max_batch_size

(***************************************************************************)
(* Properties of the circuit breaker's timing.                             *)
(***************************************************************************)

\* C28: once the breaker has tripped it stays tripped until the recovery
\* time has elapsed since the trip: every queue_message call made earlier
\* than that is dropped, however long before the trip the last flush was.
C28_TrippedForRecoveryTime ==
    [][ ( /\ queue_message({})
          /\ rate_limit_active
          /\ since_trip < circuit_breaker_recovery_time ) =>
           /\ bc_op' = "dropped"
           /\ rate_limit_active'
      ]_vars

\* C29: the breaker trips only on excessive rate: while no more than
\* circuit_breaker_threshold messages have been accepted in total, so that
\* the rate over any circuit_breaker_window-second span stays below the
\* threshold, the breaker is not tripped and no message has been dropped.
C29_TripsOnlyOnExcessRate ==
    next_msg - 1 <= circuit_breaker_threshold =>
       /\ ~rate_limit_active
       /\ bc_op # "dropped"

(***************************************************************************)
(* Properties of the periodic tasks.                                       *)
(***************************************************************************)

\* monitor task i has a cancellation requested and not yet delivered
StopPending(i) == i \in DOMAIN monitor_tasks /\ monitor_tasks[i].must_cancel

\* monitor task i has entered its loop
Begun(i) == i \in DOMAIN monitor_tasks /\ monitor_tasks[i].pc \in {"sleep", "inside"}

\* monitor task i left its loop by break
Returned(i) == i \in DOMAIN monitor_tasks /\ monitor_tasks[i].pc = "returned"

\* C21 (as stated): after stop_monitoring on a running monitor its task
\* eventually terminates without raising, that is, by leaving the loop.
C21_StoppedTaskReturns ==
    \A i \in 1..MaxTasks : StopPending(i) ~> Returned(i)

\* C21 (amended): a monitor task that has entered its loop when the stop
\* arrives, asleep or suspended inside a check or callback, eventually
\* leaves the loop by return; only a cancellation ever terminates a task
\* (a check that raises leaves it asleep for the next interval), and a
\* terminated task runs nothing more.
C21_StoppedLoopReturns ==
    /\ \A i \in 1..MaxTasks : (StopPending(i) /\ Begun(i)) ~> Returned(i)
    /\ [][\A i \in DOMAIN monitor_tasks :
            /\ (Finished(monitor_tasks'[i]) /\ ~Finished(monitor_tasks[i]))
                  => monitor_tasks[i].must_cancel
            /\ (Begun(i) /\ Finished(monitor_tasks'[i])) => Returned(i)'
            /\ (task_op' = TaskOp("check_raised", i, TRUE) /\ RunsCheck(monitor_tasks[i]))
                  => monitor_tasks'[i] = At("sleep")
            /\ Finished(monitor_tasks[i])
                  => /\ monitor_tasks'[i] = monitor_tasks[i]
                     /\ ~(\E check_raises, suspends \in BOOLEAN :
                            periodic_check(i, check_raises, suspends))
         ]_vars

\* a monitor task suspended inside a callback of its check has just left
\* its loop on a cancellation
C21_Witness ==
    \E i \in DOMAIN monitor_tasks :
       /\ Returned(i)
       /\ task_op = TaskOp("returned", i, TRUE)
       /\ lag_measurements # <<>>

\* C22: when stop_monitoring (or the store's __del__) returns, the periodic
\* task it cancelled has already finished.
C22_StopAwaitsExit ==
    [][ /\ stop_monitoring => ~Unfinished(monitor_tasks')
        /\ del_store => ~Unfinished(cleanup_tasks')
      ]_vars

UnfinishedCount(tasks) == Cardinality({i \in DOMAIN tasks : ~Finished(tasks[i])})

\* C23: at any time there is at most one unfinished monitor task and at
\* most one unfinished cleanup task, and start_monitoring (add_entry) while
\* the task is unfinished creates no task.
C23_AtMostOneTask ==
    /\ [](UnfinishedCount(monitor_tasks) <= 1 /\ UnfinishedCount(cleanup_tasks) <= 1)
    /\ [][ /\ \A loop \in BOOLEAN :
                (start_monitoring(loop) /\ Unfinished(monitor_tasks))
                   => monitor_tasks' = monitor_tasks
           /\ Unfinished(cleanup_tasks) => Len(cleanup_tasks') = Len(cleanup_tasks)
         ]_vars

\* start_monitoring was called while the second task was running, the
\* first one finished, and the store has a cleanup task too
C23_Witness ==
    /\ Len(monitor_tasks) = 2
    /\ Unfinished(monitor_tasks)
    /\ task_op = TaskOp("start_monitoring", 2, FALSE)
    /\ Unfinished(cleanup_tasks)

(***************************************************************************)
(* Properties of flush_batch under interleaving.                           *)
(***************************************************************************)

\* the sleeping timer tasks: the one flush_task refers to and the others
UnfinishedTimers == (IF TimerSleeping THEN 1 ELSE 0) + Len(orphan_timers)

\* C24: under every interleaving of queue_message calls, flush_batch calls
\* and timer expiries there is at most one unfinished timer task, and
\* flush_task refers to it whenever one exists.
C24_OneTimerTask ==
    /\ UnfinishedTimers <= 1
    /\ UnfinishedTimers = 1 => TimerSleeping

\* message m is in the envelope of a flush suspended in its send
InFlight(m) == \E k \in DOMAIN in_flight : m \in Range(in_flight[k].messages)

\* C25: every accepted message goes out in exactly one batch_update
\* envelope: it is never in more than one, and while it is in none it is
\* still pending or in the envelope of a flush that is being sent.
C25_EachMessageInOneEnvelope ==
    \A m \in 1..(next_msg - 1) :
       LET dispatched_with == IF m <= Len(batched) THEN batched[m] ELSE 0
       IN  /\ dispatched_with + (IF InFlight(m) THEN 1 ELSE 0) <= 1
           /\ dispatched_with = 0 => (m \in Range(pending_messages) \/ InFlight(m))

(***************************************************************************)
(* Restartability of the monitor.                                          *)
(***************************************************************************)

\* C40: when the latest start / stop call is start_monitoring and a
\* scheduler is running (the monitor's task has not finished), the monitor
\* eventually runs a periodic check again, unless it is stopped once more;
\* in particular after stop_monitoring immediately followed by
\* start_monitoring.
C40_StartRestartsChecks ==
    (task_op.op = "start_monitoring" /\ Unfinished(monitor_tasks))
       ~> (task_op.op \in {"check", "check_raised", "stop_monitoring"})

(***************************************************************************)
(* Properties of the degradation levels.                                   *)
(***************************************************************************)

\* C31: every check that measures a lag above max_lag_ms leaves the system
\* degraded: it took the emergency path, or degradation_active is true when
\* it ends; checks with a severe lag below the emergency count included.
C31_LaggingCheckDegrades ==
    [][\A lag_ms \in LagChoices :
          (check_event_loop_lag(lag_ms) /\ lag_ms > max_lag_ms)
             => (EmergencyDue(lag_ms) \/ degradation_active')
      ]_vars

\* C32: a session that stays connected is never told 'degraded' twice
\* without a 'normal' in between, and is told 'normal' only after a
\* 'degraded': a 'degraded' arrives only when the last announcement was not
\* 'degraded', a 'normal' only when the last one was 'degraded'.
C32_AnnouncementsAlternate ==
    [][\A s \in Sessions :
          (s \in active_connections /\ s \in active_connections')
             => /\ ModeSent(s) = "degraded" => announced[s] # "degraded"
                /\ ModeSent(s) = "normal" => announced[s] = "degraded"
      ]_vars

\* the dedup key under which an accepted record that carried every field was
\* registered
RegisteredKey(r) == EntryHash(InEntry(r.event, r.timestamp, r.request_id, r.level, TRUE))

\* the keys registered by the n latest accepted records
NewestKeys(acc, n) == {RegisteredKey(acc[i]) : i \in (Len(acc) - n + 1)..Len(acc)}

\* C33: after an add_entry call the dedup cache holds at most 100 keys, and a
\* call that prunes it leaves exactly the 50 most recently registered keys,
\* the key of the current call among them.
C33_PruneKeepsNewestKeys ==
    [][(last_op' = "stored" /\ accepted' # accepted) =>
          /\ Cardinality(recent_hashes') <= RecentHashesLimit
          /\ Cardinality(recent_hashes) + 1 > RecentHashesLimit
               => /\ recent_hashes' = NewestKeys(accepted', RecentHashesKeep)
                  /\ RegisteredKey(accepted'[Len(accepted')]) \in recent_hashes'
      ]_vars

\* a timestamp datetime.fromisoformat accepts (with or without an offset)
\* that is not older than now - max_age_seconds
ParsableWithinAge(r) ==
    LET p == FromIsoFormat(ReplaceZ(r.timestamp))
    IN  p.kind \in {"aware", "naive"} /\ p.t >= store_now - MaxAgeSeconds

\* C34: the retained records are always a contiguous suffix of the accepted
\* records, in acceptance order (so eviction and cleanup remove from the
\* oldest end only), and a cleanup pass removes no record that has a parsable
\* timestamp within max_age_seconds of now.
C34_RetentionOrder ==
    [][/\ entries' = LastN(accepted', Len(entries'))
       /\ last_op' = "cleanup" =>
             \A i \in 1..(Len(entries) - Len(entries')) : ~ParsableWithinAge(entries[i])
      ]_vars

C36_SendsInRegistrationOrder ==
    [][(send_pass'.phase = "sending" /\ send_pass'.pos = 0 /\ send_pass' # send_pass)
          => send_pass'.order = subscribers'
      ]_vars

\* a step of an immediate-bypass variant: broadcast_log_immediate,
\* send_status_update_immediate, or the degradation handler pushing its
\* status update (levels 'emergency' and 'recovery')
ImmediateOps ==
    {"broadcast_log_immediate", "send_status_update_immediate", "emergency", "recovery"}

ImmediateStep(failed) ==
    \/ broadcast_log_immediate(CleanEntry(InEntry("a", Absent, Absent, Absent, FALSE), 0),
                               failed)
    \/ status_update_immediate([server_status |-> "running"], failed)
    \/ \E level \in {"emergency", "recovery"} :
          handle_performance_degradation(level, severe_lag_threshold + 1, failed)

\* C37: an immediate-bypass variant delivers its message to every live
\* session whose send does not fail, also while the circuit breaker is
\* tripped, and leaves the pending list, the message count, the time of the
\* last flush, the flush timer and the breaker state unchanged.
C37_ImmediateBypassesThrottle ==
    [][(\E failed \in SUBSET Sessions : ImmediateStep(failed)) =>
          /\ UNCHANGED <<pending_messages, message_count, since_flush, flush_task,
                         rate_limit_active>>
          /\ \A s \in active_connections :
                IF s \in active_connections'
                THEN /\ Len(sent_now'[s]) = 1
                     /\ sent_now'[s][1].type =
                           IF bc_op' = "broadcast_log_immediate"
                           THEN "log_entry" ELSE "status_update"
                ELSE sent_now'[s] = <<>>
      ]_vars

\* C37 witness: while the breaker is tripped and a message is pending, an
\* immediate variant has just delivered to a live session.
C37_Witness ==
    /\ bc_op \in ImmediateOps
    /\ rate_limit_active
    /\ pending_messages # <<>>
    /\ \E s \in active_connections : sent_now[s] # <<>>

\* how often session s stands in the store's subscriber list
Subscriptions(s) == Cardinality({i \in 1..Len(subscribers) : subscribers[i] = s})

\* C38: once every scheduled notification task has run, a session is in the
\* manager's active set exactly when it stands in the store's subscriber
\* list, and then once; so has_subscribers() is true exactly when there is
\* a connection.
C38_RegistryMatchesSubscribers ==
    notify_tasks = <<>> =>
        /\ \A s \in Sessions :
              Subscriptions(s) = IF s \in active_connections THEN 1 ELSE 0
        /\ HasSubscribers <=> active_connections # {}

\* C39: records whose (event, timestamp, request_id, level) tuples differ get
\* different dedup keys, so with a subscriber present a record is dropped as
\* a duplicate only if a record with the same tuple was accepted before.
C39_KeyIdentifiesTuple ==
    [][/\ \A e1, e2 \in EntryInputs :
             TupleOf(e1) # TupleOf(e2) => EntryHash(e1) # EntryHash(e2)
       /\ \A e \in EntryInputs, loop \in BOOLEAN :
             (add_entry(e, loop) /\ HasSubscribers /\ last_op' = "duplicate")
                => TupleOf(e) \in seen_tuples
      ]_vars

=============================================================================
